---- MODULE Spec2Model ----
(***************************************************************************)
(* Trust & lifecycle engine of the market-cairo server: listing           *)
(* lifecycle (routes/listings, routes/admin, the retention sweeper of     *)
(* server.js), identity verification (routes/verification, routes/admin), *)
(* favorites, conversations and messages (routes/messages, the socket     *)
(* handlers of server.js).                                                 *)
(*                                                                         *)
(* A request handler is a sequence of steps separated by its awaits; a    *)
(* handler whose awaits matter for a property is split into one action    *)
(* per step and keeps its locals in a request slot (req).  Documents are  *)
(* saved the way Mongoose saves them: only the modified paths are         *)
(* written ($set), Array.push is sent as $push, Array.splice as a $set of  *)
(* the whole array guarded by the document version (__v); each of these   *)
(* array writes increments __v, while the assignment of a nested object   *)
(* is a plain $set of that path.  Versions                                *)
(* only grow and are only compared for equality, so a request keeps, for  *)
(* the user document it loaded, whether __v has moved since (field v).    *)
(***************************************************************************)
EXTENDS Integers, Sequences, FiniteSets, TLC

(***************************************************************************)
(* Bounds of the model                                                     *)
(***************************************************************************)
MaxTime == 3
MaxListings == 1
MaxViews == 1
MaxNotifs == 2
MaxFavCount == 2
MaxConversations == 2
MaxMessages == 2

(***************************************************************************)
(* Program constants.  The clock counts days.                              *)
(***************************************************************************)
TwoDays == 2

Users == {"u1", "u2", "adm"}
Admins == {"adm"}
Anon == "anon"
NoUser == "nobody"
NoTime == -1
NoReason == "null"

VerificationStatuses == {"unverified", "pending", "approved", "rejected"}
DocumentTypes == {"passport", "student_card", "residential_card"}
DeleteReasonEnum == {"Item Sold", "Other"}
ReasonInputs == {"", "Item Sold", "Other", "Free text"}

ListingIds == 1..MaxListings
Slots == {1, 2}
SocketIds == {1, 2}

VARIABLES
    now,            \* Date.now(), in days
    accounts,       \* User.isAdmin and User.isActive, per user
    verification,   \* User.verification, per user
    notifications,  \* User.notifications, per user (sequence of types)
    favorites,      \* User.favorites, per user (sequence of listing ids)
    listings,       \* the Listing collection: id -> document
    nextListingId,  \* ids are never reused
    salesCount,     \* User.salesCount, per user
    conversations,  \* the Conversation collection (sequence of documents)
    messages,       \* the Message collection (sequence of documents)
    sockets,        \* socket.io connections: socket id -> new/open/closed
    connectedUsers, \* server.js connectedUsers: userId -> socket id (0: none)
    socketUser,     \* socket.userId, per socket
    delivered,      \* the payloads the latest emit put on the wire
    req,            \* in-flight requests: slot -> locals of the handler
    lastResp,       \* the response of the request that completed last
    softDeletedAt,  \* history: time of the first soft-delete of a listing id
    sweptPast,      \* history: the sweeper ran more than two days after the
                    \* first soft-delete of a listing id
    favHist         \* history: toggles run back to back on one (user, listing)

trustVars == <<verification, notifications>>
listingVars == <<listings, nextListingId, salesCount>>
favVars == <<favorites, favHist>>
convVars == <<conversations, messages>>
rtVars == <<sockets, connectedUsers, socketUser, delivered>>
histVars == <<softDeletedAt, sweptPast>>

vars == <<now, accounts, verification, notifications, favorites, listings,
          nextListingId, salesCount, conversations, messages, sockets,
          connectedUsers, socketUser, delivered, req, lastResp, softDeletedAt,
          sweptPast, favHist>>

(***************************************************************************)
(* Requests and responses                                                  *)
(***************************************************************************)
IdleReq ==
    [op |-> "idle", pc |-> "idle", user |-> NoUser, target |-> NoUser,
     id |-> 0, arg |-> "", snap |-> "", v |-> 0, favs |-> << >>, n |-> 0,
     content |-> << >>, messages |-> << >>, images |-> << >>]

NoShown ==
    [status |-> "", isDeleted |-> FALSE, reason |-> NoReason,
     deletedAt |-> NoTime, original |-> << >>]

Resp(op, code, msg) ==
    [op |-> op, code |-> code, msg |-> msg, id |-> 0, shown |-> NoShown,
     messages |-> << >>, mail |-> "none"]

NoResp == Resp("none", 0, "")

\* transporter.sendMail resolves or rejects (emailService.js)
SendMailOutcomes == {"sent", "failed"}

Quiescent == \A r \in Slots : req[r].pc = "idle"

\* $slice: -50 of the notification push of the send handler
NotificationSlice == 50

\* Notification lists are explored up to MaxNotifs entries, and from one entry
\* below the slice length of the message push up to MaxNotifs entries above
\* it.
NotificationsWithinBound(u) ==
    \/ Len(notifications[u]) < MaxNotifs
    \/ /\ Len(notifications[u]) >= NotificationSlice - 1
       /\ Len(notifications[u]) < NotificationSlice + MaxNotifs

\* A write by request r (0: none) that increments __v of user u's document:
\* every other request that holds that document now holds a stale version.
IncrementVersion(u, r) ==
    [s \in Slots |->
        IF s # r /\ req[s].pc # "idle" /\ req[s].target = u
        THEN [req[s] EXCEPT !.v = 1]
        ELSE req[s]]

Stored(id) == id \in DOMAIN listings

\* The accounts the seed leaves behind: one admin, everybody active
InitAccounts ==
    [u \in Users |-> [isAdmin |-> u \in Admins, isActive |-> TRUE]]

\* protect middleware: the token's user exists and is active
protect(u) == u \in Users /\ accounts[u].isActive

\* adminOnly middleware
adminOnly(u) == u \in Users /\ accounts[u].isAdmin

\* a gate that also lets a pending submitter through
verifiedOnly_accepts_pending(status) == status \in {"approved", "pending"}

\* verifiedOnly middleware, applied to the user document protect loaded
verifiedOnly(status) == status = "approved"

(***************************************************************************)
(* Listing lifecycle                                                       *)
(***************************************************************************)
NewListing(seller) ==
    [seller |-> seller, status |-> "active", moderationStatus |-> "pending",
     isDeleted |-> FALSE, deletedAt |-> NoTime, deleteReason |-> NoReason,
     views |-> 0, favoritesCount |-> 0, featured |-> FALSE,
     reports |-> << >>, images |-> << >>]

\* POST /api/listings, protect + verifiedOnly: the guard runs on the user
\* document that protect loaded, before the upload and the handler.
CreateListingGuard(r, u, valid) ==
    /\ req[r].pc = "idle"
    /\ IF verifiedOnly(verification[u].status)
       THEN /\ req' = [req EXCEPT ![r] =
                   [IdleReq EXCEPT !.op = "createListing", !.pc = "create",
                                   !.user = u, !.arg = valid,
                                   !.snap = verification[u].status]]
            /\ UNCHANGED lastResp
       ELSE /\ lastResp' = Resp("createListing", 403,
                                "Identity verification required")
            /\ UNCHANGED req
    /\ UNCHANGED <<now, accounts, trustVars, listingVars, favVars, convVars,
                   rtVars, histVars>>

\* POST /api/listings, the handler: validation, then Listing.create.
CreateListingHandler(r) ==
    /\ req[r].op = "createListing" /\ req[r].pc = "create"
    /\ IF req[r].arg = "invalid"
       THEN /\ lastResp' = Resp("createListing", 400,
                                "Validation failed")
            /\ UNCHANGED listingVars
       ELSE /\ nextListingId <= MaxListings
            /\ listings' = listings @@
                   (nextListingId :> NewListing(req[r].user))
            /\ nextListingId' = nextListingId + 1
            /\ UNCHANGED salesCount
            /\ lastResp' = [Resp("createListing", 201, "")
                               EXCEPT !.id = nextListingId]
    /\ req' = [req EXCEPT ![r] = IdleReq]
    /\ UNCHANGED <<now, accounts, trustVars, favVars, convVars, rtVars,
                   histVars>>

\* The $or filter shared by GET /api/listings, /featured, /recent and
\* /:id/similar, evaluated at time t.
PublicFilter(l, t) ==
    /\ l.moderationStatus = "approved"
    /\ \/ (l.status = "active" /\ l.isDeleted # TRUE)
       \/ (l.isDeleted = TRUE /\ l.deletedAt > t - TwoDays)

\* GET /api/listings (no further filter): the ids returned at time t.
ListQuery(t) == {id \in DOMAIN listings : PublicFilter(listings[id], t)}

\* GET /api/listings/featured
FeaturedQuery(t) ==
    {id \in DOMAIN listings :
        listings[id].featured /\ PublicFilter(listings[id], t)}

\* GET /api/listings/recent
RecentQuery(t) == {id \in DOMAIN listings : PublicFilter(listings[id], t)}

\* GET /api/listings/:id/similar (same category): excludes the listing itself
SimilarQuery(self, t) ==
    {id \in DOMAIN listings : id # self /\ PublicFilter(listings[id], t)}

\* GET /api/listings/:id, the response for viewer v (Anon without a token)
\* when the listing document l is found at time t.
FetchResponse(l, id, v, t) ==
    IF l.isDeleted
    THEN IF t - l.deletedAt > TwoDays
         THEN [Resp("getListing", 404, "Listing no longer available")
                   EXCEPT !.id = id]
         ELSE [Resp("getListing", 200, "") EXCEPT
                   !.id = id,
                   !.shown = [NoShown EXCEPT !.status = "sold",
                                             !.isDeleted = TRUE,
                                             !.reason = l.deleteReason,
                                             !.deletedAt = l.deletedAt]]
    ELSE IF /\ l.moderationStatus # "approved"
            /\ (v = Anon \/ (v # l.seller /\ ~adminOnly(v)))
         THEN [Resp("getListing", 403, "This listing is pending approval")
                   EXCEPT !.id = id]
         ELSE [Resp("getListing", 200, "") EXCEPT
                   !.id = id,
                   !.shown = [NoShown EXCEPT !.status = l.status]]

\* GET /api/listings/:id
GetListing(v, id) ==
    /\ IF ~Stored(id)
       THEN /\ lastResp' = [Resp("getListing", 404, "Listing not found")
                               EXCEPT !.id = id]
            /\ UNCHANGED listings
       ELSE LET l == listings[id]
                resp == FetchResponse(l, id, v, now)
            IN  /\ lastResp' = resp
                /\ IF /\ ~l.isDeleted
                      /\ resp.code = 200
                      /\ (v = Anon \/ v # l.seller)
                   THEN /\ l.views < MaxViews
                        /\ listings' = [listings EXCEPT
                               ![id].views = l.views + 1]
                   ELSE UNCHANGED listings
    /\ UNCHANGED <<now, accounts, trustVars, nextListingId, salesCount,
                   favVars, convVars, rtVars, histVars, req>>

\* Variant that leaves the status as it is.
SoftDeleted_keeps_status(l, t, reason) ==
    [l EXCEPT !.isDeleted = TRUE, !.deletedAt = t, !.deleteReason = reason]

\* The field writes of the soft-delete handler on the loaded listing
SoftDeleted(l, t, reason) ==
    [l EXCEPT !.isDeleted = TRUE, !.deletedAt = t, !.deleteReason = reason,
              !.status = "sold"]

\* DELETE /api/listings/:id (owner soft delete)
SoftDeleteListing(u, id, reason) ==
    /\ IF reason = ""
       THEN /\ lastResp' = Resp("softDelete", 400,
                                "Please select a reason for deletion")
            /\ UNCHANGED <<listings, softDeletedAt>>
       ELSE IF ~Stored(id)
       THEN /\ lastResp' = Resp("softDelete", 404, "Listing not found")
            /\ UNCHANGED <<listings, softDeletedAt>>
       ELSE IF listings[id].seller # u
       THEN /\ lastResp' = Resp("softDelete", 403,
                                "Not authorized to delete this listing")
            /\ UNCHANGED <<listings, softDeletedAt>>
       ELSE IF reason \notin DeleteReasonEnum
       THEN \* listing.save() fails the deleteReason enum validator
            /\ lastResp' = Resp("softDelete", 500, "Server error")
            /\ UNCHANGED <<listings, softDeletedAt>>
       ELSE /\ listings' = [listings EXCEPT
                   ![id] = SoftDeleted(@, now, reason)]
            /\ softDeletedAt' =
                   IF softDeletedAt[id] = NoTime
                   THEN [softDeletedAt EXCEPT ![id] = now]
                   ELSE softDeletedAt
            /\ lastResp' = [Resp("softDelete", 200,
                                 "Listing will be removed in 2 days")
                               EXCEPT !.id = id]
    /\ UNCHANGED <<now, accounts, trustVars, nextListingId, salesCount,
                   favVars, convVars, rtVars, sweptPast, req>>

\* Variant in which approve also puts the listing back on sale.
Moderated_reactivates(l, action) ==
    [l EXCEPT !.moderationStatus =
                  IF action = "approve" THEN "approved" ELSE "rejected",
              !.status = IF action = "reject" THEN "removed" ELSE "active"]

\* The field writes of the moderate handler on the loaded listing
Moderated(l, action) ==
    [l EXCEPT !.moderationStatus =
                  IF action = "approve" THEN "approved" ELSE "rejected",
              !.status = IF action = "reject" THEN "removed" ELSE @]

\* Variant of the response in which a rejected sendMail reaches the outer
\* catch of the handler.
ModerateResponse_email_fatal(action, id, sendMail) ==
    IF sendMail = "failed"
    THEN [Resp("moderate", 500, "Failed to moderate listing")
              EXCEPT !.id = id, !.mail = sendMail]
    ELSE [Resp("moderate", 200, action) EXCEPT !.id = id, !.mail = sendMail]

\* The response after the notification block: sendListingApproved and
\* sendListingRejected catch the transport error themselves and the block is
\* wrapped in try/catch, so the handler goes on to res.json either way.
ModerateResponse(action, id, sendMail) ==
    [Resp("moderate", 200, action) EXCEPT !.id = id, !.mail = sendMail]

\* PUT /api/admin/listings/:id/moderate
ModerateListing(u, id, action) ==
    /\ IF ~adminOnly(u)
       THEN /\ lastResp' = Resp("moderate", 403,
                                "Access denied. Admin only.")
            /\ UNCHANGED <<listings, notifications, req>>
       ELSE IF action \notin {"approve", "reject"}
       THEN /\ lastResp' = Resp("moderate", 400, "Invalid action")
            /\ UNCHANGED <<listings, notifications, req>>
       ELSE IF ~Stored(id)
       THEN /\ lastResp' = Resp("moderate", 404, "Listing not found")
            /\ UNCHANGED <<listings, notifications, req>>
       ELSE LET seller == listings[id].seller
            IN  /\ NotificationsWithinBound(seller)
                /\ listings' = [listings EXCEPT
                       ![id] = Moderated(@, action)]
                /\ notifications' = [notifications EXCEPT
                       ![seller] = Append(@, "listing")]
                /\ req' = IncrementVersion(seller, 0)
                /\ \E sendMail \in SendMailOutcomes :
                       lastResp' = ModerateResponse(action, id, sendMail)
    /\ UNCHANGED <<now, accounts, verification, nextListingId, salesCount,
                   favVars, convVars, rtVars, histVars>>

\* DELETE /api/admin/listings/:id (admin hard delete)
AdminDeleteListing(u, id) ==
    /\ IF ~adminOnly(u)
       THEN /\ lastResp' = Resp("adminDelete", 403,
                                "Access denied. Admin only.")
            /\ UNCHANGED listings
       ELSE IF ~Stored(id)
       THEN /\ lastResp' = Resp("adminDelete", 404, "Listing not found")
            /\ UNCHANGED listings
       ELSE /\ listings' = [i \in DOMAIN listings \ {id} |-> listings[i]]
            /\ lastResp' = [Resp("adminDelete", 200, "") EXCEPT !.id = id]
    /\ UNCHANGED <<now, accounts, trustVars, nextListingId, salesCount,
                   favVars, convVars, rtVars, histVars, req>>

\* a sweeper that spares a listing deleted exactly two days ago
PurgePredicate_strict(l, t) == l.isDeleted = TRUE /\ l.deletedAt < t - TwoDays

\* The purge predicate of cleanupDeletedListings at time t.
PurgePredicate(l, t) == l.isDeleted = TRUE /\ l.deletedAt <= t - TwoDays

\* server.js cleanupDeletedListings: one deleteMany.
CleanupDeletedListings ==
    /\ listings' = [i \in {j \in DOMAIN listings :
                               ~PurgePredicate(listings[j], now)}
                        |-> listings[i]]
    /\ sweptPast' = [id \in DOMAIN sweptPast |->
           \/ sweptPast[id]
           \/ (softDeletedAt[id] # NoTime /\ now > softDeletedAt[id] + TwoDays)]
    /\ UNCHANGED <<now, accounts, trustVars, nextListingId, salesCount,
                   favVars, convVars, rtVars, softDeletedAt, req, lastResp>>

\* The clock advances by one day.
Tick ==
    /\ now < MaxTime
    /\ now' = now + 1
    /\ UNCHANGED <<accounts, trustVars, listingVars, favVars, convVars, rtVars,
                   histVars, req, lastResp>>

(***************************************************************************)
(* The listing-lifecycle specification: one verified seller (u1), one     *)
(* user who is not verified (u2), one admin.                               *)
(***************************************************************************)
EmptyVerification ==
    [status |-> "unverified", documentType |-> "", images |-> 0,
     reviewedAt |-> NoTime, reviewedBy |-> NoUser, rejectionReason |-> ""]

ApprovedVerification ==
    [status |-> "approved", documentType |-> "passport", images |-> 1,
     reviewedAt |-> 0, reviewedBy |-> "adm", rejectionReason |-> ""]

InitCommon ==
    /\ now = 0
    /\ accounts = InitAccounts
    /\ notifications = [u \in Users |-> << >>]
    /\ favorites = [u \in Users |-> << >>]
    /\ conversations = << >>
    /\ messages = << >>
    /\ sockets = [s \in SocketIds |-> "new"]
    /\ connectedUsers = [u \in Users |-> 0]
    /\ socketUser = [s \in SocketIds |-> NoUser]
    /\ delivered = {}
    /\ req = [r \in Slots |-> IdleReq]
    /\ lastResp = NoResp
    /\ softDeletedAt = [id \in ListingIds |-> NoTime]
    /\ sweptPast = [id \in ListingIds |-> FALSE]
    /\ favHist = [user |-> NoUser, id |-> 0, done |-> 0, member |-> FALSE,
                  count |-> 0]

InitListing ==
    /\ InitCommon
    /\ verification = [u \in Users |->
           IF u = "u1" THEN ApprovedVerification ELSE EmptyVerification]
    /\ listings = << >>
    /\ nextListingId = 1
    /\ salesCount = [u \in Users |-> 0]

NextListing ==
    \/ \E u \in Users, valid \in {"valid", "invalid"} :
           CreateListingGuard(1, u, valid)
    \/ CreateListingHandler(1)
    \/ \E v \in Users \cup {Anon}, id \in ListingIds : GetListing(v, id)
    \/ \E u \in Users, id \in ListingIds, reason \in ReasonInputs :
           SoftDeleteListing(u, id, reason)
    \/ \E u \in Users, id \in ListingIds,
          action \in {"approve", "reject", "flag"} :
           ModerateListing(u, id, action)
    \/ \E u \in Users, id \in ListingIds : AdminDeleteListing(u, id)
    \/ CleanupDeletedListings
    \/ Tick

SpecListing == InitListing /\ [][NextListing]_vars

(***************************************************************************)
(* Identity verification                                                   *)
(***************************************************************************)
DocumentTypeInputs == {"passport", "student_card", "driving_licence"}
ReviewActionInputs == {"approve", "reject", "revoke"}
ReviewReasonInputs == {"", "blurry"}
Submitters == {"u1"}
MaxDocuments == 2
FileCountInputs == 0..(MaxDocuments + 1)

\* a check that asks two images of every document type
requiredCount_two(documentType) == 2

\* passport: exactly 1 image; student_card, residential_card: exactly 2
requiredCount(documentType) == IF documentType = "passport" THEN 1 ELSE 2

\* POST /api/verification/submit up to the await of User.findById and the
\* status checks made on the document it returns.
SubmitVerificationFind(r, u, documentType, nFiles) ==
    /\ req[r].pc = "idle"
    /\ IF nFiles > MaxDocuments
       THEN \* multer's LIMIT_UNEXPECTED_FILE, answered by handleUploadErrors
            /\ lastResp' = Resp("submit", 400, "Unexpected field")
            /\ UNCHANGED req
       ELSE IF documentType \notin DocumentTypes
       THEN /\ lastResp' = Resp("submit", 400, "Invalid document type")
            /\ UNCHANGED req
       ELSE IF nFiles = 0
       THEN /\ lastResp' = Resp("submit", 400,
                                "Please upload document images")
            /\ UNCHANGED req
       ELSE IF nFiles # requiredCount(documentType)
       THEN /\ lastResp' = Resp("submit", 400, "wrong number of images")
            /\ UNCHANGED req
       ELSE IF verification[u].status = "approved"
       THEN /\ lastResp' = Resp("submit", 400, "Already verified")
            /\ UNCHANGED req
       ELSE IF verification[u].status = "pending"
       THEN /\ lastResp' = Resp("submit", 400,
                                "Verification already pending review")
            /\ UNCHANGED req
       ELSE /\ req' = [req EXCEPT ![r] =
                   [IdleReq EXCEPT !.op = "submit", !.pc = "save",
                                   !.user = u, !.target = u,
                                   !.arg = documentType, !.n = nFiles,
                                   !.snap = verification[u].status]]
            /\ UNCHANGED lastResp
    /\ UNCHANGED <<now, accounts, trustVars, listingVars, favVars, convVars,
                   rtVars, histVars>>

\* a save that writes only the submitted fields and keeps the review fields
SubmitVerificationSave_keeps_review(r) ==
    /\ req[r].op = "submit" /\ req[r].pc = "save"
    /\ verification' = [verification EXCEPT
           ![req[r].user].status = "pending",
           ![req[r].user].documentType = req[r].arg,
           ![req[r].user].images = req[r].n]
    /\ req' = [req EXCEPT ![r] = IdleReq]
    /\ lastResp' = Resp("submit", 200, "pending")
    /\ UNCHANGED <<now, accounts, notifications, listingVars, favVars, convVars,
                   rtVars, histVars>>

\* POST /api/verification/submit: user.verification = {...}; user.save().
\* The nested object is assigned as a whole, so the save is one $set of the
\* path verification, filtered by _id only.
SubmitVerificationSave(r) ==
    /\ req[r].op = "submit" /\ req[r].pc = "save"
    /\ verification' = [verification EXCEPT ![req[r].user] =
           [status |-> "pending", documentType |-> req[r].arg,
            images |-> req[r].n, reviewedAt |-> NoTime,
            reviewedBy |-> NoUser, rejectionReason |-> ""]]
    /\ req' = [req EXCEPT ![r] = IdleReq]
    /\ lastResp' = Resp("submit", 200, "pending")
    /\ UNCHANGED <<now, accounts, notifications, listingVars, favVars, convVars,
                   rtVars, histVars>>

\* a review that does not look at the stored status
ReviewVerificationFind_any_status(r, a, u, action, reason) ==
    /\ req[r].pc = "idle"
    /\ adminOnly(a)
    /\ action \in {"approve", "reject"}
    /\ ~(action = "reject" /\ reason = "")
    /\ req' = [req EXCEPT ![r] =
           [IdleReq EXCEPT !.op = "review", !.pc = "save", !.user = a,
                           !.target = u, !.arg = action, !.snap = reason]]
    /\ UNCHANGED <<now, accounts, trustVars, listingVars, favVars, convVars,
                   rtVars, histVars, lastResp>>

\* PUT /api/admin/verifications/:userId/review up to the await of
\* User.findById and the status check made on the document it returns.
ReviewVerificationFind(r, a, u, action, reason) ==
    /\ req[r].pc = "idle"
    /\ IF ~adminOnly(a)
       THEN /\ lastResp' = Resp("review", 403, "Access denied. Admin only.")
            /\ UNCHANGED req
       ELSE IF action \notin {"approve", "reject"}
       THEN /\ lastResp' = Resp("review", 400, "Invalid action")
            /\ UNCHANGED req
       ELSE IF action = "reject" /\ reason = ""
       THEN /\ lastResp' = Resp("review", 400,
                                "Rejection reason is required")
            /\ UNCHANGED req
       ELSE IF verification[u].status # "pending"
       THEN /\ lastResp' = Resp("review", 400,
                                "No pending verification for this user")
            /\ UNCHANGED req
       ELSE /\ req' = [req EXCEPT ![r] =
                   [IdleReq EXCEPT !.op = "review", !.pc = "save",
                                   !.user = a, !.target = u,
                                   !.arg = action, !.snap = reason]]
            /\ UNCHANGED lastResp
    /\ UNCHANGED <<now, accounts, trustVars, listingVars, favVars, convVars,
                   rtVars, histVars>>

\* Variant of the response in which a rejected sendMail reaches the outer
\* catch of the handler.
ReviewResponse_email_fatal(action, sendMail) ==
    IF sendMail = "failed"
    THEN [Resp("review", 500, "Failed to review verification")
              EXCEPT !.mail = sendMail]
    ELSE [Resp("review", 200, action) EXCEPT !.mail = sendMail]

\* The response after the email block: sendVerificationApproved and
\* sendVerificationRejected catch the transport error themselves and the
\* call is wrapped in try/catch, so the handler goes on to res.json either
\* way.
ReviewResponse(action, sendMail) ==
    [Resp("review", 200, action) EXCEPT !.mail = sendMail]

\* PUT /api/admin/verifications/:userId/review: the field writes, the
\* notification push and user.save(), then the email and the response.
ReviewVerificationSave(r) ==
    /\ req[r].op = "review" /\ req[r].pc = "save"
    /\ LET u == req[r].target
           action == req[r].arg
       IN  /\ NotificationsWithinBound(u)
           /\ verification' = [verification EXCEPT
                  ![u].status = IF action = "approve" THEN "approved"
                                                      ELSE "rejected",
                  ![u].reviewedAt = now,
                  ![u].reviewedBy = req[r].user,
                  ![u].rejectionReason =
                      IF action = "reject" THEN req[r].snap ELSE @]
           /\ notifications' = [notifications EXCEPT
                  ![u] = Append(@, "system")]
           /\ req' = [IncrementVersion(u, r) EXCEPT ![r] = IdleReq]
           /\ \E sendMail \in SendMailOutcomes :
                  lastResp' = ReviewResponse(action, sendMail)
    /\ UNCHANGED <<now, accounts, listingVars, favVars, convVars, rtVars,
                   histVars>>

(***************************************************************************)
(* The trust specification: users register unverified; submissions,      *)
(* reviews and listing creations interleave at their awaits.               *)
(***************************************************************************)
InitTrust ==
    /\ InitCommon
    /\ verification = [u \in Users |-> EmptyVerification]
    /\ listings = << >>
    /\ nextListingId = 1
    /\ salesCount = [u \in Users |-> 0]

NextTrust ==
    \/ \E r \in Slots, u \in Submitters, d \in DocumentTypeInputs,
          n \in FileCountInputs : SubmitVerificationFind(r, u, d, n)
    \/ \E r \in Slots : SubmitVerificationSave(r)
    \/ \E r \in Slots, a \in Users, u \in Submitters,
          action \in ReviewActionInputs, reason \in ReviewReasonInputs :
           ReviewVerificationFind(r, a, u, action, reason)
    \/ \E r \in Slots : ReviewVerificationSave(r)
    \/ \E r \in Slots, u \in Users, valid \in {"valid", "invalid"} :
           CreateListingGuard(r, u, valid)
    \/ \E r \in Slots : CreateListingHandler(r)

SpecTrust == InitTrust /\ [][NextTrust]_vars

(***************************************************************************)
(* Favorite toggle (POST /api/listings/:id/favorite)                      *)
(***************************************************************************)
FavUsers == {"u1", "u2"}

\* Array.prototype.indexOf, 1-based; 0 stands for JavaScript's -1.
IndexOf(seq, x) ==
    IF \E i \in DOMAIN seq : seq[i] = x
    THEN CHOOSE i \in DOMAIN seq :
             seq[i] = x /\ \A j \in DOMAIN seq : seq[j] = x => i <= j
    ELSE 0

\* Array.prototype.splice(i, 1)
Splice(seq, i) == SubSeq(seq, 1, i - 1) \o SubSeq(seq, i + 1, Len(seq))

InFavorites(u, id) == \E i \in DOMAIN favorites[u] : favorites[u][i] = id

NoFavHist ==
    [user |-> NoUser, id |-> 0, done |-> 0, member |-> FALSE, count |-> 0]

\* protect: req.user is loaded before the handler body runs.
FavProtect(r, u, id) ==
    /\ req[r].pc = "idle"
    /\ req' = [req EXCEPT ![r] =
                  [IdleReq EXCEPT !.op = "favorite", !.pc = "find",
                                  !.user = u, !.target = u, !.id = id,
                                  !.favs = favorites[u]]]
    /\ favHist' =
          IF ~Quiescent THEN NoFavHist
          ELSE IF favHist.user = u /\ favHist.id = id /\ favHist.done = 1
               THEN favHist
               ELSE [user |-> u, id |-> id, done |-> 0,
                     member |-> InFavorites(u, id),
                     count |-> IF Stored(id)
                               THEN listings[id].favoritesCount ELSE 0]
    /\ UNCHANGED <<now, accounts, trustVars, listingVars, favorites, convVars,
                   rtVars, histVars, lastResp>>

\* Listing.findById, then the in-memory toggle of both documents.
FavFind(r) ==
    /\ req[r].op = "favorite" /\ req[r].pc = "find"
    /\ LET id == req[r].id
           favoriteIndex == IndexOf(req[r].favs, id)
       IN  IF ~Stored(id)
           THEN /\ lastResp' = Resp("favorite", 404, "Listing not found")
                /\ req' = [req EXCEPT ![r] = IdleReq]
                /\ favHist' = NoFavHist
           ELSE IF favoriteIndex > 0
           THEN /\ req' = [req EXCEPT ![r] =
                       [@ EXCEPT !.pc = "saveUser", !.arg = "remove",
                                 !.favs = Splice(req[r].favs, favoriteIndex),
                                 !.n = IF listings[id].favoritesCount - 1 > 0
                                       THEN listings[id].favoritesCount - 1
                                       ELSE 0]]
                /\ UNCHANGED <<lastResp, favHist>>
           ELSE /\ listings[id].favoritesCount < MaxFavCount
                /\ req' = [req EXCEPT ![r] =
                       [@ EXCEPT !.pc = "saveUser", !.arg = "add",
                                 !.favs = Append(req[r].favs, id),
                                 !.n = listings[id].favoritesCount + 1]]
                /\ UNCHANGED <<lastResp, favHist>>
    /\ UNCHANGED <<now, accounts, trustVars, listingVars, favorites, convVars,
                   rtVars, histVars>>

\* user.save(): push is sent as $push (no version condition), splice as a
\* $set of the whole array under the condition that __v has not moved.
FavSaveUser(r) ==
    /\ req[r].op = "favorite" /\ req[r].pc = "saveUser"
    /\ LET u == req[r].user
       IN  IF req[r].arg = "add"
           THEN /\ favorites' = [favorites EXCEPT ![u] = Append(@, req[r].id)]
                /\ req' = [IncrementVersion(u, r) EXCEPT ![r] =
                              [req[r] EXCEPT !.pc = "saveListing"]]
                /\ UNCHANGED <<lastResp, favHist>>
           ELSE IF req[r].v # 0
           THEN \* VersionError
                /\ lastResp' = Resp("favorite", 500, "Server error")
                /\ req' = [req EXCEPT ![r] = IdleReq]
                /\ favHist' = NoFavHist
                /\ UNCHANGED favorites
           ELSE /\ favorites' = [favorites EXCEPT ![u] = req[r].favs]
                /\ req' = [IncrementVersion(u, r) EXCEPT ![r] =
                              [req[r] EXCEPT !.pc = "saveListing"]]
                /\ UNCHANGED <<lastResp, favHist>>
    /\ UNCHANGED <<now, accounts, trustVars, listingVars, convVars, rtVars,
                   histVars>>

\* listing.save(): $set of favoritesCount to the value computed in memory.
FavSaveListing(r) ==
    /\ req[r].op = "favorite" /\ req[r].pc = "saveListing"
    /\ LET id == req[r].id
       IN  IF ~Stored(id)
           THEN \* DocumentNotFoundError
                /\ lastResp' = Resp("favorite", 500, "Server error")
                /\ favHist' = NoFavHist
                /\ UNCHANGED listings
           ELSE /\ listings' = [listings EXCEPT ![id].favoritesCount = req[r].n]
                /\ lastResp' = [Resp("favorite", 200, req[r].arg)
                                   EXCEPT !.id = id]
                /\ favHist' = IF favHist.user = NoUser THEN favHist
                              ELSE [favHist EXCEPT !.done = @ + 1]
    /\ req' = [req EXCEPT ![r] = IdleReq]
    /\ UNCHANGED <<now, accounts, trustVars, nextListingId, salesCount,
                   favorites, convVars, rtVars, histVars>>

InitFav ==
    /\ InitCommon
    /\ verification = [u \in Users |->
           IF u = "u1" THEN ApprovedVerification ELSE EmptyVerification]
    /\ listings = [id \in ListingIds |-> NewListing("u1")]
    /\ nextListingId = MaxListings + 1
    /\ salesCount = [u \in Users |-> 0]

NextFav ==
    \/ \E r \in Slots, u \in FavUsers, id \in ListingIds : FavProtect(r, u, id)
    \/ \E r \in Slots : FavFind(r)
    \/ \E r \in Slots : FavSaveUser(r)
    \/ \E r \in Slots : FavSaveListing(r)

SpecFav == InitFav /\ [][NextFav]_vars

(***************************************************************************)
(* Conversations (POST /api/messages/conversations)                       *)
(***************************************************************************)
NoLastMessage == [content |-> << >>, sender |-> NoUser]

NewConversation(u, sellerId, listingId) ==
    [participants |-> <<u, sellerId>>, listing |-> listingId,
     lastMessage |-> NoLastMessage, unreadCount |-> [p \in Users |-> 0],
     isActive |-> TRUE]

Participants(c) == {c.participants[i] : i \in DOMAIN c.participants}

\* Variant that matches the participants array as given, {participants:
\* [a, b]}, instead of $all.
FindConversation_ordered(a, b, listingId) ==
    {i \in DOMAIN conversations :
        /\ conversations[i].participants = <<a, b>>
        /\ conversations[i].listing = listingId}

\* Conversation.findOne({participants: {$all: [a, b]}, listing})
FindConversation(a, b, listingId) ==
    {i \in DOMAIN conversations :
        /\ {a, b} \subseteq Participants(conversations[i])
        /\ conversations[i].listing = listingId}

\* Variant without the isActive condition.
ListConversations_all(u) ==
    {i \in DOMAIN conversations : u \in Participants(conversations[i])}

\* Conversation.find({participants: u, isActive: true})
ListConversations(u) ==
    {i \in DOMAIN conversations :
        /\ u \in Participants(conversations[i])
        /\ conversations[i].isActive}

\* The spellings of a user id a request body can carry.  _id.toString() is
\* the lower-case hex string; the cast of a query value or of a document
\* field to ObjectId reads the hex digits in either case.
UpperHex(u) ==
    CASE u = "u1" -> "U1" [] u = "u2" -> "U2" [] u = "adm" -> "ADM"

SellerIdInputs == Users \cup {UpperHex(u) : u \in Users}

castObjectId(s) ==
    IF s \in Users THEN s ELSE CHOOSE u \in Users : UpperHex(u) = s

\* The handler up to and including the lookup of an existing conversation;
\* sellerId is the string of the request body.
CreateConversationFind(r, u, listingId, sellerId) ==
    /\ req[r].pc = "idle"
    /\ IF sellerId = u
       THEN /\ lastResp' = Resp("conversation", 400,
                                "You cannot message yourself")
            /\ UNCHANGED req
       ELSE IF ~Stored(listingId)
       THEN /\ lastResp' = Resp("conversation", 404, "Listing not found")
            /\ UNCHANGED req
       ELSE IF FindConversation(u, castObjectId(sellerId), listingId) # {}
       THEN /\ lastResp' = [Resp("conversation", 200, "existing") EXCEPT
                   !.id = CHOOSE i \in
                       FindConversation(u, castObjectId(sellerId), listingId) :
                       \A j \in
                       FindConversation(u, castObjectId(sellerId), listingId) :
                           i <= j]
            /\ UNCHANGED req
       ELSE /\ req' = [req EXCEPT ![r] =
                   [IdleReq EXCEPT !.op = "conversation", !.pc = "create",
                                   !.user = u,
                                   !.target = castObjectId(sellerId),
                                   !.id = listingId]]
            /\ UNCHANGED lastResp
    /\ UNCHANGED <<now, accounts, trustVars, listingVars, favVars, convVars,
                   rtVars, histVars>>

\* Conversation.create
CreateConversationInsert(r) ==
    /\ req[r].op = "conversation" /\ req[r].pc = "create"
    /\ Len(conversations) < MaxConversations
    /\ conversations' = Append(conversations,
           NewConversation(req[r].user, req[r].target, req[r].id))
    /\ lastResp' = [Resp("conversation", 201, "new") EXCEPT
                       !.id = Len(conversations) + 1]
    /\ req' = [req EXCEPT ![r] = IdleReq]
    /\ UNCHANGED <<now, accounts, trustVars, listingVars, favVars, messages,
                   rtVars, histVars>>

InitConv ==
    /\ InitCommon
    /\ verification = [u \in Users |->
           IF u = "u1" THEN ApprovedVerification ELSE EmptyVerification]
    /\ listings = [id \in ListingIds |-> NewListing("u1")]
    /\ nextListingId = MaxListings + 1
    /\ salesCount = [u \in Users |-> 0]

NextConv ==
    \/ \E r \in Slots, u \in Users, listingId \in ListingIds \cup {0},
          sellerId \in Users :
           CreateConversationFind(r, u, listingId, sellerId)
    \/ \E r \in Slots : CreateConversationInsert(r)

SpecConv == InitConv /\ [][NextConv]_vars

\* The same requests, one at a time.
NextConvSeq ==
    \/ \E u \in Users, listingId \in ListingIds \cup {0}, sellerId \in Users :
           CreateConversationFind(1, u, listingId, sellerId)
    \/ CreateConversationInsert(1)

SpecConvSeq == InitConv /\ [][NextConvSeq]_vars

\* One request at a time, the seller id in any spelling the body can carry.
NextConvBody ==
    \/ \E u \in Users, listingId \in ListingIds \cup {0},
          sellerId \in SellerIdInputs :
           CreateConversationFind(1, u, listingId, sellerId)
    \/ CreateConversationInsert(1)

SpecConvBody == InitConv /\ [][NextConvBody]_vars

(***************************************************************************)
(* Messages (POST /api/messages/:conversationId), the content filter and  *)
(* the socket.io handlers.  A text is a sequence of words; the regular    *)
(* expressions of PATTERNS are modelled by the words they match.          *)
(***************************************************************************)
PersonalInfoWords == {"01012345678", "a@b.com", "www.x.com", "@seller"}
Replacement == "[HIDDEN]"

MessageTexts == {<<"hello">>, <<"call", "01012345678">>}
ContentInputs == MessageTexts \cup {<< >>}

filterPersonalInfo(text) ==
    [filtered |-> [i \in DOMAIN text |->
                      IF text[i] \in PersonalInfoWords
                      THEN Replacement ELSE text[i]],
     hasFiltered |-> \E i \in DOMAIN text : text[i] \in PersonalInfoWords]

\* Variant that retains the input of every message, filtered or not.
NewMessage_keeps_original(conversationId, sender, content) ==
    [conversation |-> conversationId, sender |-> sender,
     content |-> filterPersonalInfo(content).filtered,
     originalContent |-> content,
     isFiltered |-> filterPersonalInfo(content).hasFiltered,
     read |-> FALSE]

\* originalContent: undefined is the empty text (a stored text is not empty)
NewMessage(conversationId, sender, content) ==
    [conversation |-> conversationId, sender |-> sender,
     content |-> filterPersonalInfo(content).filtered,
     originalContent |-> IF filterPersonalInfo(content).hasFiltered
                         THEN content ELSE << >>,
     isFiltered |-> filterPersonalInfo(content).hasFiltered,
     read |-> FALSE]

\* $push with $slice: -n
PushSlice(seq, x, n) ==
    IF Len(seq) + 1 > n
    THEN SubSeq(Append(seq, x), Len(seq) + 2 - n, Len(seq) + 1)
    ELSE Append(seq, x)

OpenSockets == {s \in SocketIds : sockets[s] = "open"}

\* io.emit: one payload per connected socket
Broadcast(event, user, content, original) ==
    {[to |-> s, as |-> socketUser[s], event |-> event, user |-> user,
      content |-> content, original |-> original] : s \in OpenSockets}

\* Validation, Conversation.findById and the participant check.
SendMessageFind(r, u, conversationId, content) ==
    /\ req[r].pc = "idle"
    /\ IF content = << >>
       THEN /\ lastResp' = Resp("send", 400, "Message content is required")
            /\ UNCHANGED req
       ELSE IF conversationId \notin DOMAIN conversations
       THEN /\ lastResp' = Resp("send", 404, "Conversation not found")
            /\ UNCHANGED req
       ELSE IF u \notin Participants(conversations[conversationId])
       THEN /\ lastResp' = Resp("send", 403, "Not authorized")
            /\ UNCHANGED req
       ELSE LET c == conversations[conversationId]
                otherParticipant ==
                    c.participants[CHOOSE i \in DOMAIN c.participants :
                        /\ c.participants[i] # u
                        /\ \A j \in DOMAIN c.participants :
                               c.participants[j] # u => i <= j]
            IN  /\ req' = [req EXCEPT ![r] =
                       [IdleReq EXCEPT !.op = "send", !.pc = "create",
                                       !.user = u, !.id = conversationId,
                                       !.target = otherParticipant,
                                       !.content = content,
                                       !.n = c.unreadCount[otherParticipant]]]
                /\ UNCHANGED lastResp
    /\ UNCHANGED <<now, accounts, trustVars, listingVars, favVars, convVars,
                   rtVars, histVars>>

\* Message.create with the filter's result
SendMessageCreate(r) ==
    /\ req[r].op = "send" /\ req[r].pc = "create"
    /\ Len(messages) < MaxMessages
    /\ messages' = Append(messages,
                          NewMessage(req[r].id, req[r].user, req[r].content))
    /\ req' = [req EXCEPT ![r].pc = "saveConversation"]
    /\ UNCHANGED <<now, accounts, trustVars, listingVars, favVars,
                   conversations, rtVars, histVars, lastResp>>

\* conversation.save() of lastMessage and of the other participant's unread
\* counter, then io.emit('newMessage', {conversation, message}).
SendMessageSaveConversation(r) ==
    /\ req[r].op = "send" /\ req[r].pc = "saveConversation"
    /\ conversations' = [conversations EXCEPT
           ![req[r].id].lastMessage =
               [content |-> req[r].content, sender |-> req[r].user],
           ![req[r].id].unreadCount[req[r].target] = req[r].n + 1]
    /\ delivered' = Broadcast("newMessage", req[r].user,
           NewMessage(req[r].id, req[r].user, req[r].content).content,
           NewMessage(req[r].id, req[r].user, req[r].content).originalContent)
    /\ req' = [req EXCEPT ![r].pc = "notify"]
    /\ UNCHANGED <<now, accounts, trustVars, listingVars, favVars, messages,
                   sockets, connectedUsers, socketUser, histVars, lastResp>>

\* User.findByIdAndUpdate($push notifications, $slice: -50), then 201.
SendMessageNotify(r) ==
    /\ req[r].op = "send" /\ req[r].pc = "notify"
    /\ notifications' = [notifications EXCEPT ![req[r].target] =
                            PushSlice(@, "message", NotificationSlice)]
    /\ lastResp' = [Resp("send", 201, "sent") EXCEPT !.id = req[r].id]
    /\ req' = [req EXCEPT ![r] = IdleReq]
    /\ UNCHANGED <<now, accounts, verification, listingVars, favVars, convVars,
                   rtVars, histVars>>

\* io.on('connection')
Connect(s) ==
    /\ sockets[s] = "new"
    /\ sockets' = [sockets EXCEPT ![s] = "open"]
    /\ UNCHANGED <<now, accounts, trustVars, listingVars, favVars, convVars,
                   connectedUsers, socketUser, delivered, histVars, req,
                   lastResp>>

\* socket.on('join')
Join(s, userId) ==
    /\ sockets[s] = "open"
    /\ connectedUsers' = [connectedUsers EXCEPT ![userId] = s]
    /\ socketUser' = [socketUser EXCEPT ![s] = userId]
    /\ delivered' = Broadcast("userOnline", userId, << >>, << >>)
    /\ UNCHANGED <<now, accounts, trustVars, listingVars, favVars, convVars,
                   sockets, histVars, req, lastResp>>

\* socket.on('sendMessage'): the client's data is relayed as received.
SocketSendMessage(s, senderId, receiverId, content) ==
    /\ sockets[s] = "open"
    /\ LET receiverSocketId == connectedUsers[receiverId]
       IN  delivered' =
               IF receiverSocketId # 0 /\ receiverSocketId \in OpenSockets
               THEN {[to |-> receiverSocketId,
                      as |-> socketUser[receiverSocketId],
                      event |-> "newMessage", user |-> senderId,
                      content |-> content, original |-> << >>]}
               ELSE {}
    /\ UNCHANGED <<now, accounts, trustVars, listingVars, favVars, convVars,
                   sockets, connectedUsers, socketUser, histVars, req,
                   lastResp>>

\* socket.on('disconnect')
Disconnect(s) ==
    /\ sockets[s] = "open"
    /\ sockets' = [sockets EXCEPT ![s] = "closed"]
    /\ IF socketUser[s] # NoUser
       THEN /\ connectedUsers' = [connectedUsers EXCEPT ![socketUser[s]] = 0]
            /\ delivered' =
                   {[to |-> t, as |-> socketUser[t], event |-> "userOffline",
                     user |-> socketUser[s], content |-> << >>,
                     original |-> << >>] : t \in OpenSockets \ {s}}
       ELSE UNCHANGED <<connectedUsers, delivered>>
    /\ UNCHANGED <<now, accounts, trustVars, listingVars, favVars, convVars,
                   socketUser, histVars, req, lastResp>>

MsgUsers == {"u1", "u2"}

InitMsg ==
    /\ now = 0
    /\ accounts = InitAccounts
    /\ notifications = [u \in Users |-> << >>]
    /\ favorites = [u \in Users |-> << >>]
    /\ conversations = <<NewConversation("u2", "u1", 1)>>
    /\ messages = << >>
    /\ sockets = [s \in SocketIds |-> "new"]
    /\ connectedUsers = [u \in Users |-> 0]
    /\ socketUser = [s \in SocketIds |-> NoUser]
    /\ delivered = {}
    /\ req = [r \in Slots |-> IdleReq]
    /\ lastResp = NoResp
    /\ softDeletedAt = [id \in ListingIds |-> NoTime]
    /\ sweptPast = [id \in ListingIds |-> FALSE]
    /\ favHist = NoFavHist
    /\ verification = [u \in Users |->
           IF u = "u1" THEN ApprovedVerification ELSE EmptyVerification]
    /\ listings = [id \in ListingIds |-> NewListing("u1")]
    /\ nextListingId = MaxListings + 1
    /\ salesCount = [u \in Users |-> 0]

NextMsg ==
    \/ \E u \in Users, conversationId \in 1..MaxConversations,
          content \in ContentInputs :
           SendMessageFind(1, u, conversationId, content)
    \/ SendMessageCreate(1)
    \/ SendMessageSaveConversation(1)
    \/ SendMessageNotify(1)
    \/ \E s \in SocketIds : Connect(s)
    \/ \E s \in SocketIds, userId \in MsgUsers : Join(s, userId)
    \/ \E s \in SocketIds, senderId \in MsgUsers, receiverId \in MsgUsers,
          content \in MessageTexts :
           SocketSendMessage(s, senderId, receiverId, content)
    \/ \E s \in SocketIds : Disconnect(s)

SpecMsg == InitMsg /\ [][NextMsg]_vars

(***************************************************************************)
(* Retention: the sweeper (server.js cleanupDeletedListings, run at       *)
(* startup and then by setInterval every hour) against owner and admin    *)
(* requests, with a clock that never stops.  Only differences now - t     *)
(* are ever compared with two days, so once now has reached MaxTime a     *)
(* further day moves every stored time one day back instead (a time more  *)
(* than MaxTime days ago is kept as MaxTime days ago).                    *)
(***************************************************************************)
MaxSweepListings == 2
SweepIds == 1..MaxSweepListings

OneDayBack(t) == IF t = NoTime \/ t = 0 THEN t ELSE t - 1

TickWindow ==
    /\ IF now < MaxTime
       THEN /\ now' = now + 1
            /\ UNCHANGED <<listings, softDeletedAt>>
       ELSE /\ now' = now
            /\ listings' = [id \in DOMAIN listings |->
                   [listings[id] EXCEPT !.deletedAt = OneDayBack(@)]]
            /\ softDeletedAt' = [id \in DOMAIN softDeletedAt |->
                   OneDayBack(softDeletedAt[id])]
    /\ UNCHANGED <<accounts, trustVars, nextListingId, salesCount, favVars,
                   convVars, rtVars, sweptPast, req, lastResp>>

\* Two listings of the verified seller u1; u2 has favorited listing 1 and
\* has sent one message about it to u1.
InitSweep ==
    /\ now = 0
    /\ accounts = InitAccounts
    /\ verification = [u \in Users |->
           IF u = "u1" THEN ApprovedVerification ELSE EmptyVerification]
    /\ notifications = [u \in Users |->
           IF u = "u1" THEN <<"message">> ELSE << >>]
    /\ favorites = [u \in Users |-> IF u = "u2" THEN <<1>> ELSE << >>]
    /\ listings = [id \in SweepIds |->
           [NewListing("u1") EXCEPT
               !.favoritesCount = IF id = 1 THEN 1 ELSE 0]]
    /\ nextListingId = MaxSweepListings + 1
    /\ salesCount = [u \in Users |-> 0]
    /\ conversations =
           <<[NewConversation("u2", "u1", 1) EXCEPT
                 !.lastMessage = [content |-> <<"hello">>, sender |-> "u2"],
                 !.unreadCount["u1"] = 1]>>
    /\ messages = <<NewMessage(1, "u2", <<"hello">>)>>
    /\ sockets = [s \in SocketIds |-> "new"]
    /\ connectedUsers = [u \in Users |-> 0]
    /\ socketUser = [s \in SocketIds |-> NoUser]
    /\ delivered = {}
    /\ req = [r \in Slots |-> IdleReq]
    /\ lastResp = NoResp
    /\ softDeletedAt = [id \in SweepIds |-> NoTime]
    /\ sweptPast = [id \in SweepIds |-> FALSE]
    /\ favHist = NoFavHist

NextSweep ==
    \/ \E u \in {"u1", "u2"}, id \in SweepIds, reason \in DeleteReasonEnum :
           SoftDeleteListing(u, id, reason)
    \/ \E id \in SweepIds : AdminDeleteListing("adm", id)
    \/ CleanupDeletedListings
    \/ TickWindow

SpecSweep == InitSweep /\ [][NextSweep]_vars

\* setInterval keeps the sweeper running, and time keeps passing.
SpecSweepFair ==
    /\ SpecSweep
    /\ WF_vars(CleanupDeletedListings)
    /\ WF_vars(TickWindow)

(***************************************************************************)
(* Unread counters: GET /api/messages/conversations/:id next to the send   *)
(* handler.  conversation.save() writes the paths the handler modified,    *)
(* lastMessage and unreadCount.<participant>, with $set and without a      *)
(* version condition.                                                      *)
(***************************************************************************)

\* Conversation.findById and the participant check.
OpenConversationFind(r, u, conversationId) ==
    /\ req[r].pc = "idle"
    /\ IF conversationId \notin DOMAIN conversations
       THEN /\ lastResp' = Resp("open", 404, "Conversation not found")
            /\ UNCHANGED req
       ELSE IF u \notin Participants(conversations[conversationId])
       THEN /\ lastResp' = Resp("open", 403, "Not authorized")
            /\ UNCHANGED req
       ELSE /\ req' = [req EXCEPT ![r] =
                   [IdleReq EXCEPT !.op = "open", !.pc = "messages",
                                   !.user = u, !.id = conversationId]]
            /\ UNCHANGED lastResp
    /\ UNCHANGED <<now, accounts, trustVars, listingVars, favVars, convVars,
                   rtVars, histVars>>

\* The positions S of the message collection, newest first.
RECURSIVE SortNewestFirst(_)
SortNewestFirst(S) ==
    IF S = {} THEN << >>
    ELSE LET newest == CHOOSE i \in S : \A j \in S : j <= i
         IN  <<newest>> \o SortNewestFirst(S \ {newest})

\* sort({createdAt: 1}): a message's position in the collection stands for
\* its createdAt, later inserts have later timestamps.
RECURSIVE SortByCreatedAt(_)
SortByCreatedAt(S) ==
    IF S = {} THEN << >>
    ELSE LET oldest == CHOOSE i \in S : \A j \in S : i <= j
         IN  <<oldest>> \o SortByCreatedAt(S \ {oldest})

\* Message.find({conversation}).sort({createdAt: 1}): the messages of the
\* response, as positions of the collection
OpenConversationMessages(r) ==
    /\ req[r].op = "open" /\ req[r].pc = "messages"
    /\ req' = [req EXCEPT ![r].pc = "markRead",
                          ![r].n = Cardinality({i \in DOMAIN messages :
                                       messages[i].conversation = req[r].id}),
                          ![r].messages = SortByCreatedAt(
                              {i \in DOMAIN messages :
                                  messages[i].conversation = req[r].id})]
    /\ UNCHANGED <<now, accounts, trustVars, listingVars, favVars, convVars,
                   rtVars, histVars, lastResp>>

\* Message.updateMany({conversation, sender: {$ne: user}, read: false},
\*                    {read: true})
OpenConversationMarkRead(r) ==
    /\ req[r].op = "open" /\ req[r].pc = "markRead"
    /\ messages' = [i \in DOMAIN messages |->
           IF /\ messages[i].conversation = req[r].id
              /\ messages[i].sender # req[r].user
              /\ ~messages[i].read
           THEN [messages[i] EXCEPT !.read = TRUE]
           ELSE messages[i]]
    /\ req' = [req EXCEPT ![r].pc = "save"]
    /\ UNCHANGED <<now, accounts, trustVars, listingVars, favVars,
                   conversations, rtVars, histVars, lastResp>>

\* conversation.unreadCount.set(user, 0), conversation.save(), response
OpenConversationSave(r) ==
    /\ req[r].op = "open" /\ req[r].pc = "save"
    /\ conversations' = [conversations EXCEPT
           ![req[r].id].unreadCount[req[r].user] = 0]
    /\ lastResp' = [Resp("open", 200, "ok") EXCEPT
                        !.id = req[r].id, !.messages = req[r].messages]
    /\ req' = [req EXCEPT ![r] = IdleReq]
    /\ UNCHANGED <<now, accounts, trustVars, listingVars, favVars, messages,
                   rtVars, histVars>>

\* A storage call of the send handler rejects (Message.create,
\* conversation.save or User.findByIdAndUpdate): the catch block answers 500
\* and what earlier calls stored stays stored.
SendMessageStorageError(r) ==
    /\ req[r].op = "send"
    /\ req[r].pc \in {"create", "saveConversation", "notify"}
    /\ lastResp' = [Resp("send", 500, "Server error") EXCEPT !.id = req[r].id]
    /\ req' = [req EXCEPT ![r] = IdleReq]
    /\ UNCHANGED <<now, accounts, trustVars, listingVars, favVars, convVars,
                   rtVars, histVars>>

\* Send and open requests of both participants, interleaved at their awaits.
NextUnread ==
    \/ \E r \in Slots, u \in Users, conversationId \in 1..MaxConversations,
          content \in ContentInputs :
           SendMessageFind(r, u, conversationId, content)
    \/ \E r \in Slots : SendMessageCreate(r)
    \/ \E r \in Slots : SendMessageSaveConversation(r)
    \/ \E r \in Slots : SendMessageNotify(r)
    \/ \E r \in Slots, u \in Users, conversationId \in 1..MaxConversations :
           OpenConversationFind(r, u, conversationId)
    \/ \E r \in Slots : OpenConversationMessages(r)
    \/ \E r \in Slots : OpenConversationMarkRead(r)
    \/ \E r \in Slots : OpenConversationSave(r)

SpecUnread == InitMsg /\ [][NextUnread]_vars

\* One request at a time, with storage failures of the send handler.
NextSendFail ==
    \/ \E u \in Users, conversationId \in 1..MaxConversations,
          content \in ContentInputs :
           SendMessageFind(1, u, conversationId, content)
    \/ SendMessageCreate(1)
    \/ SendMessageSaveConversation(1)
    \/ SendMessageNotify(1)
    \/ SendMessageStorageError(1)
    \/ \E u \in Users, conversationId \in 1..MaxConversations :
           OpenConversationFind(1, u, conversationId)
    \/ OpenConversationMessages(1)
    \/ OpenConversationMarkRead(1)
    \/ OpenConversationSave(1)

SpecSendFail == InitMsg /\ [][NextSendFail]_vars

(***************************************************************************)
(* Notification lists: the three triggers that append to a user's list,    *)
(* the send handler ($push with $slice), listing moderation and            *)
(* verification review (notifications.push and save), on users whose lists *)
(* already hold NotificationSlice - 1 entries from earlier messages.       *)
(***************************************************************************)
InitNotif ==
    /\ now = 0
    /\ accounts = InitAccounts
    /\ notifications = [u \in Users |->
           IF u \in MsgUsers
           THEN [i \in 1..(NotificationSlice - 1) |-> "message"]
           ELSE << >>]
    /\ favorites = [u \in Users |-> << >>]
    /\ conversations = <<NewConversation("u2", "u1", 1)>>
    /\ messages = << >>
    /\ sockets = [s \in SocketIds |-> "new"]
    /\ connectedUsers = [u \in Users |-> 0]
    /\ socketUser = [s \in SocketIds |-> NoUser]
    /\ delivered = {}
    /\ req = [r \in Slots |-> IdleReq]
    /\ lastResp = NoResp
    /\ softDeletedAt = [id \in ListingIds |-> NoTime]
    /\ sweptPast = [id \in ListingIds |-> FALSE]
    /\ favHist = NoFavHist
    /\ verification = [u \in Users |->
           IF u = "u1" THEN ApprovedVerification ELSE EmptyVerification]
    /\ listings = [id \in ListingIds |-> NewListing("u1")]
    /\ nextListingId = MaxListings + 1
    /\ salesCount = [u \in Users |-> 0]

NextNotif ==
    \/ \E u \in MsgUsers : SendMessageFind(1, u, 1, <<"hello">>)
    \/ SendMessageCreate(1)
    \/ SendMessageSaveConversation(1)
    \/ SendMessageNotify(1)
    \/ \E id \in ListingIds, action \in {"approve", "reject"} :
           ModerateListing("adm", id, action)
    \/ SubmitVerificationFind(1, "u2", "passport", 1)
    \/ SubmitVerificationSave(1)
    \/ \E action \in {"approve", "reject"} :
           ReviewVerificationFind(1, "adm", "u2", action, "blurry")
    \/ ReviewVerificationSave(1)

SpecNotif == InitNotif /\ [][NextNotif]_vars

\* The two handlers that send email, on users with short notification lists.
NextMail ==
    \/ \E id \in ListingIds, action \in {"approve", "reject"} :
           ModerateListing("adm", id, action)
    \/ \E d \in DocumentTypes :
           SubmitVerificationFind(1, "u2", d, requiredCount(d))
    \/ SubmitVerificationSave(1)
    \/ \E action \in {"approve", "reject"} :
           ReviewVerificationFind(1, "adm", "u2", action, "blurry")
    \/ ReviewVerificationSave(1)

SpecMail == InitMsg /\ [][NextMail]_vars

(***************************************************************************)
(* Reports: POST /api/listings/:id/report.  The handler decides on the     *)
(* listing document it loaded; listing.save() sends the pushed report as   *)
(* $push, which appends to the stored array and carries no version         *)
(* condition, and moderationStatus as $set when the handler assigned it.   *)
(***************************************************************************)
ReportThreshold == 3
ReportReasonInputs == {"", "spam"}

Reporters(l) == {l.reports[i] : i \in DOMAIN l.reports}

\* Validation, Listing.findById and the alreadyReported check.
ReportListingFind(r, u, id, reason) ==
    /\ req[r].pc = "idle"
    /\ IF reason = ""
       THEN /\ lastResp' = Resp("report", 400, "Reason is required")
            /\ UNCHANGED req
       ELSE IF ~Stored(id)
       THEN /\ lastResp' = Resp("report", 404, "Listing not found")
            /\ UNCHANGED req
       ELSE IF u \in Reporters(listings[id])
       THEN /\ lastResp' = [Resp("report", 400,
                                 "You have already reported this listing")
                               EXCEPT !.id = id]
            /\ UNCHANGED req
       ELSE /\ req' = [req EXCEPT ![r] =
                   [IdleReq EXCEPT !.op = "report", !.pc = "save",
                                   !.user = u, !.id = id,
                                   !.n = Len(listings[id].reports) + 1]]
            /\ UNCHANGED lastResp
    /\ UNCHANGED <<now, accounts, trustVars, listingVars, favVars, convVars,
                   rtVars, histVars>>

\* listing.reports.push, the auto-flag on the loaded document's length, and
\* listing.save()
ReportListingSave(r) ==
    /\ req[r].op = "report" /\ req[r].pc = "save"
    /\ listings' = [listings EXCEPT
           ![req[r].id].reports = Append(@, req[r].user),
           ![req[r].id].moderationStatus =
               IF req[r].n >= ReportThreshold THEN "pending" ELSE @]
    /\ lastResp' = [Resp("report", 200, "Listing reported successfully")
                       EXCEPT !.id = req[r].id]
    /\ req' = [req EXCEPT ![r] = IdleReq]
    /\ UNCHANGED <<now, accounts, trustVars, nextListingId, salesCount,
                   favVars, convVars, rtVars, histVars>>

\* Reports of every user on the stored listing, interleaved at the await
\* between findById and save, next to admin moderation.
NextReport ==
    \/ \E r \in Slots, u \in Users, id \in ListingIds,
          reason \in ReportReasonInputs : ReportListingFind(r, u, id, reason)
    \/ \E r \in Slots : ReportListingSave(r)
    \/ \E id \in ListingIds, action \in {"approve", "reject"} :
           ModerateListing("adm", id, action)

SpecReport == InitMsg /\ [][NextReport]_vars

\* The same requests, one at a time.
NextReportSeq ==
    \/ \E u \in Users, id \in ListingIds \cup {MaxListings + 1},
          reason \in ReportReasonInputs : ReportListingFind(1, u, id, reason)
    \/ ReportListingSave(1)
    \/ \E id \in ListingIds, action \in {"approve", "reject"} :
           ModerateListing("adm", id, action)

SpecReportSeq == InitMsg /\ [][NextReportSeq]_vars

(***************************************************************************)
(* View counter: GET /api/listings/:id split at its awaits.  listing.views *)
(* += 1 is computed on the loaded document and listing.save() writes it    *)
(* as $set views, without $inc and without a version condition.            *)
(***************************************************************************)
Viewers == {Anon, "u1", "u2"}

\* Listing.findById and the checks up to the view increment; a request that
\* does not count a view answers here.
GetListingFind(r, v, id) ==
    /\ req[r].pc = "idle"
    /\ IF ~Stored(id)
       THEN /\ lastResp' = [Resp("getListing", 404, "Listing not found")
                               EXCEPT !.id = id]
            /\ UNCHANGED req
       ELSE LET l == listings[id]
                resp == FetchResponse(l, id, v, now)
            IN  IF /\ ~l.isDeleted
                   /\ resp.code = 200
                   /\ (v = Anon \/ v # l.seller)
                THEN /\ l.views < MaxViews
                     /\ req' = [req EXCEPT ![r] =
                            [IdleReq EXCEPT !.op = "getListing",
                                            !.pc = "save", !.user = v,
                                            !.id = id, !.n = l.views,
                                            !.snap = l.status]]
                     /\ UNCHANGED lastResp
                ELSE /\ lastResp' = resp
                     /\ UNCHANGED req
    /\ UNCHANGED <<now, accounts, trustVars, listingVars, favVars, convVars,
                   rtVars, histVars>>

\* listing.save() of the incremented counter, then the response
GetListingSave(r) ==
    /\ req[r].op = "getListing" /\ req[r].pc = "save"
    /\ listings' = [listings EXCEPT ![req[r].id].views = req[r].n + 1]
    /\ lastResp' = [Resp("getListing", 200, "") EXCEPT
                       !.id = req[r].id,
                       !.shown = [NoShown EXCEPT !.status = req[r].snap]]
    /\ req' = [req EXCEPT ![r] = IdleReq]
    /\ UNCHANGED <<now, accounts, trustVars, nextListingId, salesCount,
                   favVars, convVars, rtVars, histVars>>

\* Fetches of one listing by its seller and by others, interleaved, next to
\* admin moderation and the owner's soft delete.
NextViews ==
    \/ \E r \in Slots, v \in Viewers, id \in ListingIds \cup {MaxListings + 1} :
           GetListingFind(r, v, id)
    \/ \E r \in Slots : GetListingSave(r)
    \/ \E id \in ListingIds, action \in {"approve", "reject"} :
           ModerateListing("adm", id, action)
    \/ \E id \in ListingIds : SoftDeleteListing("u1", id, "Item Sold")

SpecViews == InitMsg /\ [][NextViews]_vars

(***************************************************************************)
(* PUT /api/listings/:id/sold next to admin moderation.                    *)
(***************************************************************************)
MaxSales == 2
ModerateActionInputs == {"approve", "reject", "ban"}
ModerateCallers == {"adm", "u2"}

\* Variant that lets an admin mark any listing sold.
IsOwner_or_admin(l, u) == l.seller = u \/ adminOnly(u)

\* listing.seller.toString() === req.user._id.toString()
IsOwner(l, u) == l.seller = u

\* Listing.findById and the owner check.
MarkSoldFind(r, u, id) ==
    /\ req[r].pc = "idle"
    /\ IF ~Stored(id)
       THEN /\ lastResp' = Resp("markSold", 404, "Listing not found")
            /\ UNCHANGED req
       ELSE IF ~IsOwner(listings[id], u)
       THEN /\ lastResp' = [Resp("markSold", 403, "Not authorized")
                               EXCEPT !.id = id]
            /\ UNCHANGED req
       ELSE /\ salesCount[u] < MaxSales
            /\ req' = [req EXCEPT ![r] =
                   [IdleReq EXCEPT !.op = "markSold", !.pc = "save",
                                   !.user = u, !.id = id]]
            /\ UNCHANGED lastResp
    /\ UNCHANGED <<now, accounts, trustVars, listingVars, favVars, convVars,
                   rtVars, histVars>>

\* listing.status = 'sold'; listing.save()
MarkSoldSave(r) ==
    /\ req[r].op = "markSold" /\ req[r].pc = "save"
    /\ listings' = [listings EXCEPT ![req[r].id].status = "sold"]
    /\ req' = [req EXCEPT ![r].pc = "count"]
    /\ UNCHANGED <<now, accounts, trustVars, nextListingId, salesCount, favVars,
                   convVars, rtVars, histVars, lastResp>>

\* User.findByIdAndUpdate(user, {$inc: {salesCount: 1}}), then the response
MarkSoldCount(r) ==
    /\ req[r].op = "markSold" /\ req[r].pc = "count"
    /\ salesCount' = [salesCount EXCEPT ![req[r].user] = @ + 1]
    /\ lastResp' = [Resp("markSold", 200, "Listing marked as sold")
                       EXCEPT !.id = req[r].id]
    /\ req' = [req EXCEPT ![r] = IdleReq]
    /\ UNCHANGED <<now, accounts, trustVars, listings, nextListingId, favVars,
                   convVars, rtVars, histVars>>

NextSold ==
    \/ \E u \in ModerateCallers, id \in ListingIds \cup {MaxListings + 1},
          action \in ModerateActionInputs : ModerateListing(u, id, action)
    \/ \E u \in Users, id \in ListingIds \cup {MaxListings + 1} :
           MarkSoldFind(1, u, id)
    \/ MarkSoldSave(1)
    \/ MarkSoldCount(1)

SpecSold == InitMsg /\ [][NextSold]_vars

\* Mark-sold requests, interleaved at their awaits, next to approvals.  No
\* action here takes a listing out of status sold or out of the collection,
\* so the listings ever marked sold are the ones whose status is sold.
NextSoldRepeat ==
    \/ \E r \in Slots, u \in Users, id \in ListingIds \cup {MaxListings + 1} :
           MarkSoldFind(r, u, id)
    \/ \E r \in Slots : MarkSoldSave(r)
    \/ \E r \in Slots : MarkSoldCount(r)
    \/ \E id \in ListingIds : ModerateListing("adm", id, "approve")

SpecSoldRepeat == InitMsg /\ [][NextSoldRepeat]_vars

(***************************************************************************)
(* PUT /api/listings/:id with uploaded images.  The new array is built     *)
(* from the loaded document and written by findByIdAndUpdate as $set       *)
(* images, without a version condition.                                    *)
(***************************************************************************)
MaxImages == 3
UploadInputs == {<< >>, <<"b">>, <<"c">>}

\* The fields of the request body the model distinguishes; "" and NoUser
\* stand for a field the body does not carry.
EmptyBody == [status |-> "", moderationStatus |-> "", seller |-> NoUser]

BodyInputs ==
    [status : {"", "active"}, moderationStatus : {"", "approved"},
     seller : {NoUser, "u2"}]

\* Variant that passes the whole request body on as the update.
updateData_whole_body(body) == body

\* const {title, ..., status} = req.body; if (status) updateData.status =
\* status: of the fields above only status reaches updateData.
updateData(body) ==
    [status |-> body.status, moderationStatus |-> "", seller |-> NoUser]

\* Listing.findById, the ownership check, updateData and updateData.images
UpdateListingFind(r, u, id, files, body) ==
    /\ req[r].pc = "idle"
    /\ IF ~Stored(id)
       THEN /\ lastResp' = Resp("updateListing", 404, "Listing not found")
            /\ UNCHANGED req
       ELSE IF listings[id].seller # u /\ ~adminOnly(u)
       THEN /\ lastResp' = Resp("updateListing", 403,
                                "Not authorized to update this listing")
            /\ UNCHANGED req
       ELSE /\ Len(listings[id].images) < MaxImages
            /\ req' = [req EXCEPT ![r] =
                   [IdleReq EXCEPT !.op = "updateListing", !.pc = "update",
                                   !.user = u, !.id = id, !.content = files,
                                   !.arg = updateData(body).status,
                                   !.snap = updateData(body).moderationStatus,
                                   !.target = updateData(body).seller,
                                   !.images = listings[id].images \o files]]
            /\ UNCHANGED lastResp
    /\ UNCHANGED <<now, accounts, trustVars, listingVars, favVars, convVars,
                   rtVars, histVars>>

\* Listing.findByIdAndUpdate(id, updateData): a $set of the paths that
\* updateData holds; then the response
UpdateListingUpdate(r) ==
    /\ req[r].op = "updateListing" /\ req[r].pc = "update"
    /\ listings' = [listings EXCEPT
           ![req[r].id].images =
               IF Len(req[r].content) > 0 THEN req[r].images ELSE @,
           ![req[r].id].status = IF req[r].arg # "" THEN req[r].arg ELSE @,
           ![req[r].id].moderationStatus =
               IF req[r].snap # "" THEN req[r].snap ELSE @,
           ![req[r].id].seller =
               IF req[r].target # NoUser THEN req[r].target ELSE @]
    /\ lastResp' = [Resp("updateListing", 200, "") EXCEPT !.id = req[r].id]
    /\ req' = [req EXCEPT ![r] = IdleReq]
    /\ UNCHANGED <<now, accounts, trustVars, nextListingId, salesCount, favVars,
                   convVars, rtVars, histVars>>

InitEdit ==
    /\ now = 0
    /\ accounts = InitAccounts
    /\ notifications = [u \in Users |-> << >>]
    /\ favorites = [u \in Users |-> << >>]
    /\ conversations = << >>
    /\ messages = << >>
    /\ sockets = [s \in SocketIds |-> "new"]
    /\ connectedUsers = [u \in Users |-> 0]
    /\ socketUser = [s \in SocketIds |-> NoUser]
    /\ delivered = {}
    /\ req = [r \in Slots |-> IdleReq]
    /\ lastResp = NoResp
    /\ softDeletedAt = [id \in ListingIds |-> NoTime]
    /\ sweptPast = [id \in ListingIds |-> FALSE]
    /\ favHist = NoFavHist
    /\ verification = [u \in Users |->
           IF u = "u1" THEN ApprovedVerification ELSE EmptyVerification]
    /\ listings = [id \in ListingIds |->
           [NewListing("u1") EXCEPT !.images = <<"a">>]]
    /\ nextListingId = MaxListings + 1
    /\ salesCount = [u \in Users |-> 0]

\* Edits of the stored listing by its owner, the admin and another user,
\* interleaved at the await between findById and findByIdAndUpdate.
NextEdit ==
    \/ \E r \in Slots, u \in Users, id \in ListingIds \cup {MaxListings + 1},
          files \in UploadInputs :
           UpdateListingFind(r, u, id, files, EmptyBody)
    \/ \E r \in Slots : UpdateListingUpdate(r)

SpecEdit == InitEdit /\ [][NextEdit]_vars

\* Edits with every body of a listing that is moderated, reported and
\* soft-deleted in between.
NextEditBody ==
    \/ \E u \in Users, files \in {<< >>, <<"b">>}, body \in BodyInputs :
           UpdateListingFind(1, u, 1, files, body)
    \/ UpdateListingUpdate(1)
    \/ \E action \in {"approve", "reject"} : ModerateListing("adm", 1, action)
    \/ ReportListingFind(1, "u2", 1, "spam")
    \/ ReportListingSave(1)
    \/ SoftDeleteListing("u1", 1, "Item Sold")

SpecEditBody == InitEdit /\ [][NextEditBody]_vars

(***************************************************************************)
(* Archive: DELETE /api/messages/conversations/:id, next to the queries    *)
(* that filter on isActive (conversation list, unread count) and the one   *)
(* that does not (open by id).                                             *)
(***************************************************************************)

RECURSIVE SumUnread(_, _)
SumUnread(S, u) ==
    IF S = {} THEN 0
    ELSE LET i == CHOOSE j \in S : TRUE
         IN  conversations[i].unreadCount[u] + SumUnread(S \ {i}, u)

\* GET /unread/count: Conversation.find({participants: u, isActive: true}),
\* then the sum of the caller's counters
GetUnreadCount(u) == SumUnread(ListConversations(u), u)

\* Conversation.findById and participants.includes(req.user._id)
ArchiveConversationFind(r, u, conversationId) ==
    /\ req[r].pc = "idle"
    /\ IF conversationId \notin DOMAIN conversations
       THEN /\ lastResp' = Resp("archive", 404, "Conversation not found")
            /\ UNCHANGED req
       ELSE IF u \notin Participants(conversations[conversationId])
       THEN /\ lastResp' = Resp("archive", 403, "Not authorized")
            /\ UNCHANGED req
       ELSE /\ req' = [req EXCEPT ![r] =
                   [IdleReq EXCEPT !.op = "archive", !.pc = "save",
                                   !.user = u, !.id = conversationId]]
            /\ UNCHANGED lastResp
    /\ UNCHANGED <<now, accounts, trustVars, listingVars, favVars, convVars,
                   rtVars, histVars>>

\* conversation.isActive = false, conversation.save(), response
ArchiveConversationSave(r) ==
    /\ req[r].op = "archive" /\ req[r].pc = "save"
    /\ conversations' = [conversations EXCEPT ![req[r].id].isActive = FALSE]
    /\ lastResp' = [Resp("archive", 200, "Conversation deleted") EXCEPT
                        !.id = req[r].id]
    /\ req' = [req EXCEPT ![r] = IdleReq]
    /\ UNCHANGED <<now, accounts, trustVars, listingVars, favVars, messages,
                   rtVars, histVars>>

\* Send, open and archive requests, one at a time.
NextArchive ==
    \/ \E u \in MsgUsers, conversationId \in 1..MaxConversations :
           SendMessageFind(1, u, conversationId, <<"hello">>)
    \/ SendMessageCreate(1)
    \/ SendMessageSaveConversation(1)
    \/ SendMessageNotify(1)
    \/ \E u \in Users, conversationId \in 1..MaxConversations :
           OpenConversationFind(1, u, conversationId)
    \/ OpenConversationMessages(1)
    \/ OpenConversationMarkRead(1)
    \/ OpenConversationSave(1)
    \/ \E u \in Users, conversationId \in 1..MaxConversations :
           ArchiveConversationFind(1, u, conversationId)
    \/ ArchiveConversationSave(1)

SpecArchive == InitMsg /\ [][NextArchive]_vars

(***************************************************************************)
(* DELETE /api/listings/:id on the first stored listing of u1 and on a     *)
(* missing one, by every user and with every kind of reason, while the     *)
(* clock runs and the admin moderates.                                     *)
(***************************************************************************)
NextDelete ==
    \/ \E u \in Users, id \in {1, MaxListings + 1}, reason \in ReasonInputs :
           SoftDeleteListing(u, id, reason)
    \/ \E action \in {"approve", "reject"} : ModerateListing("adm", 1, action)
    \/ Tick

SpecDelete == InitMsg /\ [][NextDelete]_vars

(***************************************************************************)
(* The connection registry of server.js on its own: connections, joins     *)
(* and disconnects of two sockets in every order.                          *)
(***************************************************************************)
NextRegistry ==
    \/ \E s \in SocketIds : Connect(s)
    \/ \E s \in SocketIds, userId \in MsgUsers : Join(s, userId)
    \/ \E s \in SocketIds : Disconnect(s)

SpecRegistry == InitMsg /\ [][NextRegistry]_vars

(***************************************************************************)
(* Account administration: the role and status toggles of routes/admin.js  *)
(* and the status toggle of routes/users.js, one request at a time.        *)
(***************************************************************************)
UserIdInputs == Users \cup {NoUser}

\* protect and adminOnly in front of an admin route: the response that ends
\* the request, or NoResp when the handler runs
AdminGate(op, a) ==
    IF ~protect(a) THEN Resp(op, 401, "Account has been deactivated")
    ELSE IF ~adminOnly(a) THEN Resp(op, 403, "Access denied. Admin only.")
    ELSE NoResp

\* user._id.toString() === req.user._id.toString()
IsSelf(user, a) == user = a

\* PUT /api/admin/users/:id/role
ToggleRole(a, id) ==
    /\ IF AdminGate("role", a) # NoResp
       THEN /\ lastResp' = AdminGate("role", a)
            /\ UNCHANGED accounts
       ELSE IF id \notin Users
       THEN /\ lastResp' = Resp("role", 404, "User not found")
            /\ UNCHANGED accounts
       ELSE IF IsSelf(id, a)
       THEN /\ lastResp' = Resp("role", 400,
                                "Cannot modify your own admin role")
            /\ UNCHANGED accounts
       ELSE /\ accounts' = [accounts EXCEPT ![id].isAdmin = ~@]
            /\ lastResp' = Resp("role", 200, id)
    /\ UNCHANGED <<now, trustVars, listingVars, favVars, convVars, rtVars,
                   histVars, req>>

\* PUT /api/admin/users/:id/status
ToggleStatus(a, id) ==
    /\ IF AdminGate("status", a) # NoResp
       THEN /\ lastResp' = AdminGate("status", a)
            /\ UNCHANGED accounts
       ELSE IF id \notin Users
       THEN /\ lastResp' = Resp("status", 404, "User not found")
            /\ UNCHANGED accounts
       ELSE IF IsSelf(id, a)
       THEN /\ lastResp' = Resp("status", 400,
                                "Cannot deactivate your own account")
            /\ UNCHANGED accounts
       ELSE /\ accounts' = [accounts EXCEPT ![id].isActive = ~@]
            /\ lastResp' = Resp("status", 200, id)
    /\ UNCHANGED <<now, trustVars, listingVars, favVars, convVars, rtVars,
                   histVars, req>>

\* PUT /api/users/:id/status: the same toggle in routes/users.js, without
\* the self check
ToggleUserStatus(a, id) ==
    /\ IF AdminGate("userStatus", a) # NoResp
       THEN /\ lastResp' = AdminGate("userStatus", a)
            /\ UNCHANGED accounts
       ELSE IF id \notin Users
       THEN /\ lastResp' = Resp("userStatus", 404, "User not found")
            /\ UNCHANGED accounts
       ELSE /\ accounts' = [accounts EXCEPT ![id].isActive = ~@]
            /\ lastResp' = Resp("userStatus", 200, id)
    /\ UNCHANGED <<now, trustVars, listingVars, favVars, convVars, rtVars,
                   histVars, req>>

NextAdmin ==
    \/ \E a \in Users, id \in UserIdInputs : ToggleRole(a, id)
    \/ \E a \in Users, id \in UserIdInputs : ToggleStatus(a, id)
    \/ \E a \in Users, id \in UserIdInputs : ToggleUserStatus(a, id)

SpecAdmin == InitMsg /\ [][NextAdmin]_vars

(***************************************************************************)
(* Properties                                                              *)
(***************************************************************************)

\* The visibility predicate of the specification, at time t.
IsPubliclyVisible(l, t) ==
    /\ l.moderationStatus = "approved"
    /\ \/ (l.status = "active" /\ ~l.isDeleted)
       \/ (l.isDeleted /\ t - l.deletedAt <= TwoDays)

\* C2: every stored listing is returned to an anonymous caller by the public
\* list queries (list, featured when featured, recent, similar) and by
\* fetch-by-id exactly when it is approved and either active and not deleted
\* or soft-deleted no more than two days ago.
C2_PublicVisibility ==
    \A id \in DOMAIN listings :
        LET l == listings[id]
            visible == IsPubliclyVisible(l, now)
        IN  /\ (id \in ListQuery(now)) <=> visible
            /\ (id \in RecentQuery(now)) <=> visible
            /\ (id \in FeaturedQuery(now)) <=> (l.featured /\ visible)
            /\ \A other \in DOMAIN listings \ {id} :
                   (id \in SimilarQuery(other, now)) <=> visible
            /\ (FetchResponse(l, id, Anon, now).code = 200) <=> visible

\* C3: a create-listing request passes the trust gate only for a caller whose
\* verification status is approved; for any other status it is answered 403
\* and neither a listing nor a pending request results; every listing that
\* is created is created for a caller the gate saw approved and starts
\* pending moderation, active and not deleted.
C3_CreateRequiresApproved ==
    [][ /\ \A r \in Slots, u \in Users, valid \in {"valid", "invalid"} :
               (CreateListingGuard(r, u, valid)
                    /\ verification[u].status # "approved")
               => /\ lastResp'.op = "createListing"
                  /\ lastResp'.code = 403
                  /\ listings' = listings
                  /\ req' = req
        /\ \A r \in Slots :
               req'[r].op = "createListing" => req'[r].snap = "approved"
        /\ \A id \in DOMAIN listings' \ DOMAIN listings :
               /\ listings'[id].moderationStatus = "pending"
               /\ listings'[id].status = "active"
               /\ listings'[id].isDeleted = FALSE
               /\ lastResp'.code = 201
               /\ \E r \in Slots :
                      /\ req[r].op = "createListing"
                      /\ req[r].snap = "approved"
                      /\ req[r].user = listings'[id].seller
      ]_vars

\* C3 witness: a listing has been created and a later create request of a
\* caller who is not approved has just been refused.
C3_Witness ==
    /\ DOMAIN listings # {}
    /\ lastResp.op = "createListing"
    /\ lastResp.code = 403

AllowedTransitions ==
    {<<"unverified", "pending">>, <<"rejected", "pending">>,
     <<"pending", "approved">>, <<"pending", "rejected">>}

\* C4: in every behaviour a user's verification status changes only along
\* unverified->pending, rejected->pending, pending->approved and
\* pending->rejected; in particular approved never changes again.
C4_VerificationTransitions ==
    [][\A u \in Users :
           verification'[u].status # verification[u].status
           => <<verification[u].status, verification'[u].status>>
                  \in AllowedTransitions]_vars

\* C5: a review whose save arrives when the stored status is no longer
\* pending (another review took effect first) has no effect: the stored
\* decision and the notification list stay as they are and the request is
\* answered with an error.
C5_ReviewCompareAndSet ==
    [][\A r \in Slots :
           (/\ req[r].op = "review" /\ req[r].pc = "save"
            /\ req'[r].pc = "idle"
            /\ verification[req[r].target].status # "pending")
           => /\ verification' = verification
              /\ notifications' = notifications
              /\ lastResp'.code >= 400]_vars

\* C9: for every stored soft-deleted listing, fetch-by-id answers "no longer
\* available" exactly when the sweeper's purge predicate holds, and (for an
\* approved listing, which the list queries would otherwise return) the list
\* queries exclude it exactly when the purge predicate holds.
C9_ReadPathMatchesSweeper ==
    \A id \in DOMAIN listings :
        LET l == listings[id]
        IN  l.isDeleted =>
              /\ (FetchResponse(l, id, Anon, now).msg
                      = "Listing no longer available")
                 <=> PurgePredicate(l, now)
              /\ l.moderationStatus = "approved"
                 => ((id \notin ListQuery(now)) <=> PurgePredicate(l, now))

\* C10: after the owner soft-deleted listing id at time d, a fetch-by-id of
\* the still stored listing before d + 2 days returns it shown as sold with
\* its delete metadata, and a fetch-by-id after the sweeper has run past
\* d + 2 days returns not-found.
C10_SoftDeleteThenPurge ==
    [][\A v \in Users \cup {Anon}, id \in ListingIds :
           (GetListing(v, id) /\ softDeletedAt[id] # NoTime)
           => /\ (Stored(id) /\ now - softDeletedAt[id] < TwoDays)
                 => /\ lastResp'.code = 200
                    /\ lastResp'.shown.status = "sold"
                    /\ lastResp'.shown.isDeleted
                    /\ lastResp'.shown.reason \in DeleteReasonEnum
                    /\ lastResp'.shown.deletedAt # NoTime
              /\ sweptPast[id] => lastResp'.code = 404]_vars

FavoritedBy(id) == {u \in Users : InFavorites(u, id)}

\* C7: whenever no request is in flight, every listing's favoritesCount is
\* the number of users whose favorites contain the listing, and no user's
\* favorites holds the same listing twice -- also after interleaved toggles
\* of one user on one listing.
C7_FavoritesConsistent ==
    Quiescent =>
        /\ \A id \in DOMAIN listings :
               listings[id].favoritesCount = Cardinality(FavoritedBy(id))
        /\ \A u \in Users : \A i, j \in DOMAIN favorites[u] :
               favorites[u][i] = favorites[u][j] => i = j

\* C8: after two consecutive successful toggles by one user on one listing,
\* with no other operation between them, the user's membership for the
\* listing and the listing's favoritesCount are what they were before the
\* first toggle.
C8_ToggleTwiceIsIdentity ==
    favHist.done = 2 =>
        /\ InFavorites(favHist.user, favHist.id) = favHist.member
        /\ Stored(favHist.id)
        /\ listings[favHist.id].favoritesCount = favHist.count

\* C1: at most one Conversation exists per (unordered participant pair,
\* listing), also when create-conversation requests for the same two users
\* and listing interleave their lookup and insert steps.
C1_OneConversationPerPairAndListing ==
    \A i, j \in DOMAIN conversations :
        ( /\ Participants(conversations[i]) = Participants(conversations[j])
          /\ conversations[i].listing = conversations[j].listing ) => i = j

\* C6: the unfiltered text of a message the filter altered is in nothing a
\* non-admin can read or receive: not in the stored content, not in the
\* lastMessage snapshot of a conversation returned by conversation list or
\* open, and not in a realtime payload.
C6_OriginalNeverExposed ==
    \A k \in DOMAIN messages :
        messages[k].isFiltered =>
            /\ messages[k].content # messages[k].originalContent
            /\ \A u \in Users \ Admins : \A i \in ListConversations(u) :
                   conversations[i].lastMessage.content
                       # messages[k].originalContent
            /\ \A p \in delivered :
                   p.as \notin Admins =>
                       /\ p.content # messages[k].originalContent
                       /\ p.original # messages[k].originalContent

\* C11: a listing undergoes exactly one soft-delete event: once isDeleted is
\* true no later operation changes deletedAt or deleteReason (or clears
\* isDeleted), so the two-day grace period is never restarted.
C11_SingleSoftDelete ==
    [][\A id \in DOMAIN listings \cap DOMAIN listings' :
           listings[id].isDeleted
           => /\ listings'[id].isDeleted
              /\ listings'[id].deletedAt = listings[id].deletedAt
              /\ listings'[id].deleteReason = listings[id].deleteReason]_vars

\* C12: with the sweeper running again and again and time passing, every
\* listing that is soft-deleted is eventually removed from the store,
\* whatever requests are interleaved.
C12_SoftDeletedEventuallyRemoved ==
    \A id \in SweepIds :
        (Stored(id) /\ listings[id].isDeleted) ~> ~Stored(id)

\* C13: a sweep at time now removes exactly the listings with isDeleted and
\* deletedAt <= now - 2 days, keeps every other listing as it is, and
\* changes no user, conversation or message.
C13_SweepFrame ==
    [][CleanupDeletedListings
       => /\ DOMAIN listings' =
                 {id \in DOMAIN listings :
                     ~(/\ listings[id].isDeleted
                       /\ listings[id].deletedAt <= now - TwoDays)}
          /\ \A id \in DOMAIN listings' : listings'[id] = listings[id]
          /\ UNCHANGED <<verification, notifications, favorites,
                         conversations, messages>>]_vars

\* C13 witness: the sweeper has run past the threshold of a listing that is
\* gone, while another soft-deleted listing, a user's favorites, a
\* conversation and a message are still stored.
C13_Witness ==
    \E id \in SweepIds, other \in SweepIds :
        /\ sweptPast[id] /\ ~Stored(id)
        /\ Stored(other) /\ listings[other].isDeleted
        /\ favorites["u2"] # << >>
        /\ conversations # << >> /\ messages # << >>

\* C14: a review request (approve, or reject with a reason) by an admin on a
\* user whose verification status is not pending is answered with an error
\* and changes neither the user's verification record nor the user's
\* notifications, and no save follows; in particular a second review right
\* after a first one fails.
C14_ReviewNeedsPending ==
    [][\A r \in Slots, a \in Admins, u \in Submitters,
          action \in {"approve", "reject"}, reason \in ReviewReasonInputs :
           ( /\ ReviewVerificationFind(r, a, u, action, reason)
             /\ ~(action = "reject" /\ reason = "")
             /\ verification[u].status # "pending" )
           => /\ lastResp'.op = "review"
              /\ lastResp'.code = 400
              /\ lastResp'.msg = "No pending verification for this user"
              /\ verification' = verification
              /\ notifications' = notifications
              /\ req' = req]_vars

\* C14 witness: a review has taken effect (the user was notified) and a
\* further review of the same user has just been refused.
C14_Witness ==
    /\ lastResp.op = "review"
    /\ lastResp.msg = "No pending verification for this user"
    /\ verification["u1"].status \in {"approved", "rejected"}
    /\ notifications["u1"] # << >>
    /\ Quiescent

\* C15: a valid submit by a user whose status is pending or approved is
\* answered with an error and changes nothing; a valid submit by a user whose
\* status is unverified or rejected goes on to its save, and the save
\* replaces the whole verification record: status pending, the submitted
\* document type and images, and rejectionReason, reviewedAt and reviewedBy
\* cleared.
C15_SubmitByStatus ==
    [][/\ \A r \in Slots, u \in Submitters, d \in DocumentTypes :
              SubmitVerificationFind(r, u, d, IF d = "passport" THEN 1 ELSE 2)
              => IF verification[u].status \in {"pending", "approved"}
                 THEN /\ lastResp'.op = "submit"
                      /\ lastResp'.code = 400
                      /\ verification' = verification
                      /\ notifications' = notifications
                      /\ req' = req
                 ELSE /\ req'[r].op = "submit"
                      /\ req'[r].pc = "save"
                      /\ verification' = verification
       /\ \A r \in Slots :
              (req[r].op = "submit" /\ req'[r].op = "idle")
              => /\ req[r].snap \in {"unverified", "rejected"}
                 /\ lastResp'.code = 200
                 /\ verification' = [verification EXCEPT ![req[r].user] =
                        [status |-> "pending", documentType |-> req[r].arg,
                         images |-> req[r].n, reviewedAt |-> NoTime,
                         reviewedBy |-> NoUser, rejectionReason |-> ""]]
      ]_vars

\* C15 witness: a user who was reviewed (and notified) has resubmitted: the
\* record is pending again and carries no trace of the review.
C15_Witness ==
    /\ lastResp.op = "submit" /\ lastResp.code = 200
    /\ notifications["u1"] # << >>
    /\ verification["u1"].status = "pending"
    /\ verification["u1"].rejectionReason = ""
    /\ verification["u1"].reviewedBy = NoUser

UnreadFor(conversationId, p) ==
    Cardinality({i \in DOMAIN messages :
                    /\ messages[i].conversation = conversationId
                    /\ messages[i].sender # p
                    /\ ~messages[i].read})

\* C18: when a send request has ended with a storage error, the conversation
\* is in step with the stored messages: each participant's unread counter
\* counts the unread messages of the other, and lastMessage names the sender
\* of the newest stored message; the message and its counter increment took
\* effect together or not at all.
C18_SendIsOneUnit ==
    (Quiescent /\ lastResp.op = "send" /\ lastResp.code = 500) =>
        LET c == conversations[lastResp.id]
            own == {i \in DOMAIN messages :
                       messages[i].conversation = lastResp.id}
        IN  /\ \A p \in Participants(c) :
                   c.unreadCount[p] = UnreadFor(lastResp.id, p)
            /\ own # {} =>
                   LET last == CHOOSE i \in own : \A j \in own : j <= i
                   IN  /\ c.lastMessage.sender = messages[last].sender
                       /\ filterPersonalInfo(c.lastMessage.content).filtered
                              = messages[last].content

\* C19: whenever no request is in flight, each participant's unread counter
\* of every conversation equals the number of messages of that conversation
\* that the participant did not send and that have read = false, however
\* send and open requests interleave.
C19_UnreadCountMatches ==
    Quiescent =>
        \A id \in DOMAIN conversations :
            \A p \in Participants(conversations[id]) :
                conversations[id].unreadCount[p] = UnreadFor(id, p)

\* C20: the conversation save of a send request raises the stored unread
\* counter of the other participant by exactly 1, leaves the sender's counter
\* as stored and sets lastMessage.sender to the sender; a send by a user who
\* is not a participant of the conversation is answered 403 and changes no
\* message, no conversation and starts no request.
C20_SendIncrementsOther ==
    [][/\ \A r \in Slots :
              SendMessageSaveConversation(r) =>
                  LET before == conversations[req[r].id]
                      after == conversations'[req[r].id]
                  IN  /\ req[r].target # req[r].user
                      /\ after.unreadCount[req[r].target]
                             = before.unreadCount[req[r].target] + 1
                      /\ after.unreadCount[req[r].user]
                             = before.unreadCount[req[r].user]
                      /\ after.lastMessage.sender = req[r].user
       /\ \A r \in Slots, u \in Users, id \in DOMAIN conversations,
             content \in MessageTexts :
              (/\ u \notin Participants(conversations[id])
               /\ SendMessageFind(r, u, id, content)) =>
                  /\ lastResp'.op = "send" /\ lastResp'.code = 403
                  /\ UNCHANGED <<messages, conversations, req>>]_vars

\* C21: an open request of participant V that runs without a concurrent
\* request marks every message of the conversation that V did not send as
\* read and leaves every other message as it is, sets V's unread counter to 0
\* and leaves the other counters, and returns the conversation's messages
\* oldest first; an open by a user who is not a participant is answered 403
\* and changes no message and no conversation.
C21_OpenMarksReadAndResets ==
    [][/\ \A r \in Slots :
              /\ OpenConversationMarkRead(r) =>
                     \A i \in DOMAIN messages :
                         IF /\ messages[i].conversation = req[r].id
                            /\ messages[i].sender # req[r].user
                         THEN messages'[i] = [messages[i] EXCEPT !.read = TRUE]
                         ELSE messages'[i] = messages[i]
              /\ OpenConversationSave(r) =>
                     LET id == req[r].id
                         V == req[r].user
                         own == {i \in DOMAIN messages :
                                    messages[i].conversation = id}
                         ms == lastResp'.messages
                     IN  /\ lastResp'.code = 200
                         /\ \A i \in own :
                                messages'[i].sender # V => messages'[i].read
                         /\ conversations'[id].unreadCount[V] = 0
                         /\ \A p \in Users \ {V} :
                                conversations'[id].unreadCount[p]
                                    = conversations[id].unreadCount[p]
                         /\ {ms[k] : k \in DOMAIN ms} = own
                         /\ \A k, l \in DOMAIN ms : k < l => ms[k] < ms[l]
                         /\ messages' = messages
              /\ (req[r].op = "open" /\ req[r].pc \in {"messages"}) =>
                     UNCHANGED <<messages, conversations>>
       /\ \A r \in Slots, u \in Users, id \in DOMAIN conversations :
              (/\ u \notin Participants(conversations[id])
               /\ OpenConversationFind(r, u, id)) =>
                  /\ lastResp'.op = "open" /\ lastResp'.code = 403
                  /\ UNCHANGED <<messages, conversations, req>>]_vars

C21_Witness ==
    /\ lastResp.op = "open" /\ lastResp.code = 200
    /\ Len(lastResp.messages) = 2
    /\ \E i, j \in DOMAIN messages :
           /\ messages[i].sender = "u2" /\ messages[i].read
           /\ messages[j].sender = "u1" /\ ~messages[j].read
    /\ conversations[1].unreadCount["u1"] = 0
    /\ conversations[1].unreadCount["u2"] = 1

\* C22: every user's notification list holds at most 50 entries, whichever
\* handler appended them.
C22_NotificationsBounded ==
    \A u \in Users : Len(notifications[u]) <= NotificationSlice

\* C23: a report by a user whose report is already stored on the listing is
\* answered 400 (already reported) and leaves every listing unchanged, and no
\* listing ever holds two reports of the same user.
C23_NoDuplicateReports ==
    /\ [][\A r \in Slots, u \in Users, id \in ListingIds :
              (/\ Stored(id)
               /\ u \in Reporters(listings[id])
               /\ ReportListingFind(r, u, id, "spam")) =>
                  /\ lastResp'.op = "report" /\ lastResp'.code = 400
                  /\ UNCHANGED <<listings, req>>]_vars
    /\ [](\A id \in ListingIds :
              Stored(id) =>
                  \A i, j \in DOMAIN listings[id].reports :
                      listings[id].reports[i] = listings[id].reports[j]
                          => i = j)

\* C24: when a report is stored and the listing then holds reports of three
\* distinct users, its moderationStatus is pending, whatever it was before
\* and however the report requests interleave.
C24_ThreeReportsFlag ==
    [][\A r \in Slots :
           (/\ ReportListingSave(r)
            /\ Cardinality(Reporters(listings'[req[r].id])) >= 3) =>
               listings'[req[r].id].moderationStatus = "pending"]_vars

\* C25: every fetch that returns the live listing to a viewer other than its
\* seller raises the stored views counter by exactly 1, also when fetches
\* interleave, and a fetch that answers without counting (the seller's, or
\* one that does not return the live listing) leaves every listing unchanged.
C25_ViewsCountEveryFetch ==
    [][/\ \A r \in Slots :
              GetListingSave(r) =>
                  listings'[req[r].id].views = listings[req[r].id].views + 1
       /\ \A r \in Slots, v \in Viewers, id \in ListingIds :
              (/\ Stored(id)
               /\ (v = listings[id].seller \/ listings[id].isDeleted)
               /\ GetListingFind(r, v, id)) =>
                  UNCHANGED <<listings, req>>]_vars

\* C26: when the email of a verification review or of a listing moderation
\* fails to send, the decision is stored all the same (the status, and the
\* in-app notification appended before the email) and the request answers
\* success.
C26_EmailFailureIsHarmless ==
    [][/\ \A r \in Slots :
              (/\ req[r].op = "review" /\ req[r].pc = "save"
               /\ req'[r].pc = "idle"
               /\ lastResp'.mail = "failed") =>
                  LET u == req[r].target
                  IN  /\ lastResp'.op = "review" /\ lastResp'.code = 200
                      /\ verification'[u].status =
                             IF req[r].arg = "approve" THEN "approved"
                                                       ELSE "rejected"
                      /\ notifications'[u] = Append(notifications[u], "system")
       /\ (lastResp'.op = "moderate" /\ lastResp'.mail = "failed"
              /\ lastResp' # lastResp) =>
              LET id == lastResp'.id
              IN  /\ lastResp'.code = 200
                  /\ listings'[id].moderationStatus =
                         IF lastResp'.msg = "approve" THEN "approved"
                                                      ELSE "rejected"
                  /\ notifications'[listings[id].seller] =
                         Append(notifications[listings[id].seller], "listing")]_vars

C26_Witness ==
    /\ lastResp.op = "review" /\ lastResp.mail = "failed"
    /\ lastResp.code = 200
    /\ verification["u2"].status = "rejected"
    /\ \E id \in ListingIds : listings[id].moderationStatus = "rejected"

\* C27: a moderate request by an admin on a stored listing sets
\* moderationStatus to approved for approve and to rejected for reject;
\* reject also sets status to removed and approve leaves status as it is; a
\* request with another action or for a missing listing fails and changes no
\* listing; repeating the action that was just applied changes no listing.
C27_ModerateSetsStatus ==
    [][\A u \in ModerateCallers, id \in ListingIds \cup {MaxListings + 1},
          action \in ModerateActionInputs :
           ModerateListing(u, id, action) =>
               IF adminOnly(u) /\ action \in {"approve", "reject"}
                               /\ Stored(id)
               THEN /\ lastResp'.code = 200
                    /\ listings'[id].moderationStatus =
                           IF action = "approve" THEN "approved"
                                                 ELSE "rejected"
                    /\ listings'[id].status =
                           IF action = "reject" THEN "removed"
                                                ELSE listings[id].status
                    /\ \A other \in DOMAIN listings \ {id} :
                           listings'[other] = listings[other]
                    /\ (/\ Quiescent
                        /\ lastResp.op = "moderate" /\ lastResp.code = 200
                        /\ lastResp.msg = action /\ lastResp.id = id)
                           => listings' = listings
               ELSE /\ lastResp'.code \in {400, 403, 404}
                    /\ listings' = listings]_vars

C27_Witness ==
    /\ lastResp.op = "moderate" /\ lastResp.code = 200
    /\ lastResp.msg = "approve"
    /\ \E id \in ListingIds :
           /\ listings[id].moderationStatus = "approved"
           /\ listings[id].status = "sold"

\* C28: a mark-sold request of the listing's seller sets the listing's status
\* to sold and raises the seller's salesCount by exactly 1, changing nothing
\* else of the listings and counters; a request of any other user is answered
\* 403 and changes no listing and no salesCount.
C28_MarkSoldCountsSale ==
    [][/\ \A r \in Slots :
              /\ MarkSoldSave(r) =>
                     /\ req[r].user = listings[req[r].id].seller
                     /\ listings' =
                            [listings EXCEPT ![req[r].id].status = "sold"]
                     /\ UNCHANGED salesCount
              /\ MarkSoldCount(r) =>
                     /\ lastResp'.code = 200
                     /\ listings[req[r].id].status \in {"sold", "removed"}
                     /\ salesCount'[req[r].user] = salesCount[req[r].user] + 1
                     /\ \A u \in Users \ {req[r].user} :
                            salesCount'[u] = salesCount[u]
                     /\ UNCHANGED listings
       /\ \A r \in Slots, u \in Users, id \in ListingIds :
              (/\ Stored(id) /\ u # listings[id].seller
               /\ MarkSoldFind(r, u, id)) =>
                  /\ lastResp'.code = 403
                  /\ UNCHANGED <<listings, salesCount, req>>]_vars

C28_Witness ==
    /\ lastResp.op = "markSold" /\ lastResp.code = 200
    /\ salesCount["u1"] = 1
    /\ \E id \in ListingIds : listings[id].status = "sold"

\* The images of a listing's image list, as a set
ImagesOf(l) == {l.images[i] : i \in DOMAIN l.images}

\* C29: an edit that succeeds only appends images: after its update the
\* listing's image list holds every image that was stored before the update
\* and every image the edit uploaded, also when edits of the same listing
\* interleave.
C29_EditOnlyAppendsImages ==
    [][\A r \in Slots :
           UpdateListingUpdate(r) =>
               /\ ImagesOf(listings[req[r].id])
                      \subseteq ImagesOf(listings'[req[r].id])
               /\ {req[r].content[i] : i \in DOMAIN req[r].content}
                      \subseteq ImagesOf(listings'[req[r].id])]_vars

\* C30: a create-conversation call by u with counterpart sellerId on a stored
\* listing for which a conversation of these two users exists answers 200
\* with an existing conversation of the pair and the listing, the one the
\* call with caller and counterpart swapped resolves to, and creates
\* nothing.
C30_GetOrCreateIsSymmetric ==
    [][\A r \in Slots, u \in Users, sellerId \in Users,
          listingId \in ListingIds :
           (/\ u # sellerId
            /\ Stored(listingId)
            /\ \E i \in DOMAIN conversations :
                   /\ Participants(conversations[i]) = {u, sellerId}
                   /\ conversations[i].listing = listingId
            /\ CreateConversationFind(r, u, listingId, sellerId)) =>
               LET pair == {i \in DOMAIN conversations :
                               /\ Participants(conversations[i])
                                      = {u, sellerId}
                               /\ conversations[i].listing = listingId}
               IN  /\ lastResp'.op = "conversation"
                   /\ lastResp'.code = 200 /\ lastResp'.msg = "existing"
                   /\ lastResp'.id \in pair
                   /\ \A j \in pair : lastResp'.id <= j
                   /\ UNCHANGED <<conversations, req>>]_vars

C30_Witness ==
    /\ lastResp.op = "conversation" /\ lastResp.code = 200
    /\ lastResp.msg = "existing"
    /\ lastResp.id \in DOMAIN conversations
    /\ conversations[lastResp.id].participants = <<"u2", "u1">>

\* C31: a create-conversation request whose counterpart is the caller fails
\* with a validation error and creates nothing, and no conversation ever has
\* the same user as both participants.
C31_NoSelfConversation ==
    /\ [][\A u \in Users, listingId \in ListingIds \cup {0},
            sellerId \in SellerIdInputs :
             (CreateConversationFind(1, u, listingId, sellerId)
                /\ castObjectId(sellerId) = u)
             => /\ lastResp'.code = 400
                /\ req' = req
                /\ conversations' = conversations]_vars
    /\ [](\A i \in DOMAIN conversations :
             conversations[i].participants[1]
                 # conversations[i].participants[2])

\* C32: one of the two participants of every conversation is the seller of
\* the conversation's listing.
C32_SellerIsParticipant ==
    \A i \in DOMAIN conversations :
        Stored(conversations[i].listing)
        => listings[conversations[i].listing].seller
               \in Participants(conversations[i])

\* C33: the realtime newMessage event of a send reaches the recipient (the
\* other participant) only: every payload it puts on the wire goes to a
\* socket of the recipient.
C33_NewMessageOnlyToRecipient ==
    [][/\ SendMessageSaveConversation(1)
          => \A p \in delivered' : p.as = req[1].target
       /\ \A s \in SocketIds, senderId \in MsgUsers, receiverId \in MsgUsers,
            content \in MessageTexts :
              SocketSendMessage(s, senderId, receiverId, content)
              => \A p \in delivered' : p.as = receiverId]_vars

\* C34: archive by a participant sets isActive to false; the conversation is
\* then absent from the conversation list and from the unread count of every
\* user, and open by id still returns it with its messages; archive by a
\* caller who is not a participant is answered 403 and changes nothing.
C34_ArchiveHidesFromLists ==
    [][/\ ArchiveConversationSave(1)
          => /\ ~conversations'[req[1].id].isActive
             /\ lastResp'.code = 200
             /\ \A u \in Users :
                  /\ req[1].id \notin ListConversations(u)'
                  /\ GetUnreadCount(u)' = GetUnreadCount(u)
                       - (IF req[1].id \in ListConversations(u)
                          THEN conversations[req[1].id].unreadCount[u]
                          ELSE 0)
       /\ \A u \in Users, c \in DOMAIN conversations :
            (ArchiveConversationFind(1, u, c)
               /\ u \notin Participants(conversations[c]))
            => /\ lastResp'.code = 403
               /\ conversations' = conversations
               /\ req' = req
       /\ (OpenConversationSave(1) /\ ~conversations[req[1].id].isActive)
          => /\ lastResp'.code = 200
             /\ lastResp'.id = req[1].id
             /\ lastResp'.messages = SortByCreatedAt(
                    {i \in DOMAIN messages :
                        messages[i].conversation = req[1].id})
             /\ ~conversations'[req[1].id].isActive]_vars

C34_Witness ==
    /\ lastResp.op = "open" /\ lastResp.code = 200
    /\ lastResp.id \in DOMAIN conversations
    /\ ~conversations[lastResp.id].isActive
    /\ Len(lastResp.messages) = MaxMessages
    /\ \E u \in MsgUsers : conversations[lastResp.id].unreadCount[u] > 0

\* C35: soft-delete succeeds only for the listing's owner.  A request by
\* another user, the admin included, is answered with an authorization
\* error and leaves the listing unchanged; a successful one sets isDeleted,
\* deletedAt = now, status = sold and deleteReason = reason; a request with
\* a missing reason or one outside the enum fails and leaves the listing
\* unchanged.
C35_SoftDeleteOwnerOnly ==
    [][\A u \in Users, id \in ListingIds, reason \in ReasonInputs :
         (SoftDeleteListing(u, id, reason) /\ Stored(id))
         => /\ (listings[id].seller # u)
               => /\ lastResp'.code = IF reason = "" THEN 400 ELSE 403
                  /\ listings' = listings
            /\ (reason \notin {"Item Sold", "Other"})
               => /\ lastResp'.code \in {400, 403, 500}
                  /\ listings' = listings
            /\ (lastResp'.code = 200)
               => /\ listings[id].seller = u
                  /\ listings'[id].isDeleted = TRUE
                  /\ listings'[id].deletedAt = now
                  /\ listings'[id].status = "sold"
                  /\ listings'[id].deleteReason = reason
                  /\ listings'[id].moderationStatus
                         = listings[id].moderationStatus
                  /\ listings'[id].seller = listings[id].seller
            /\ (listings[id].seller = u /\ reason \in {"Item Sold", "Other"})
               => lastResp'.code = 200]_vars

C35_Witness ==
    /\ lastResp.op = "softDelete" /\ lastResp.code = 200
    /\ Stored(lastResp.id)
    /\ listings[lastResp.id].isDeleted = TRUE
    /\ listings[lastResp.id].deletedAt = now
    /\ now > 0
    /\ listings[lastResp.id].deleteReason = "Other"
    /\ listings[lastResp.id].moderationStatus = "approved"

\* C36: an edit of a listing, by its owner or by an admin, leaves
\* moderationStatus, isDeleted, deletedAt, the reports list and the seller
\* as they were, whatever the request body carries; an edit of an approved
\* listing does not send it back to moderation.
C36_EditFrame ==
    [][UpdateListingUpdate(1)
       => /\ lastResp'.code = 200
          /\ listings'[req[1].id].moderationStatus
                 = listings[req[1].id].moderationStatus
          /\ listings'[req[1].id].isDeleted = listings[req[1].id].isDeleted
          /\ listings'[req[1].id].deletedAt = listings[req[1].id].deletedAt
          /\ listings'[req[1].id].deleteReason
                 = listings[req[1].id].deleteReason
          /\ listings'[req[1].id].reports = listings[req[1].id].reports
          /\ listings'[req[1].id].seller = listings[req[1].id].seller]_vars

C36_Witness ==
    /\ lastResp.op = "updateListing" /\ lastResp.code = 200
    /\ listings[lastResp.id].moderationStatus = "approved"
    /\ listings[lastResp.id].isDeleted = TRUE
    /\ listings[lastResp.id].status = "active"
    /\ listings[lastResp.id].reports # << >>
    /\ Len(listings[lastResp.id].images) > 1

\* C37: whenever an admin's approve succeeds on a listing that is not
\* soft-deleted, the listing is publicly visible right afterwards: it is in
\* the public list query and an anonymous fetch by id returns it, whatever
\* the listing's state was before (rejected or marked sold included).
C37_ApprovedIsLive ==
    [][\A id \in ListingIds :
         (/\ ModerateListing("adm", id, "approve")
          /\ Stored(id)
          /\ listings[id].isDeleted # TRUE)
         => /\ id \in ListQuery(now)'
            /\ FetchResponse(listings'[id], id, Anon, now').code = 200]_vars

\* C38: a seller's salesCount is at most the number of that seller's
\* listings that have been marked sold; a listing contributes at most 1,
\* however many mark-sold requests are made on it.
C38_SalesCountBounded ==
    \A u \in Users :
        salesCount[u] <= Cardinality({id \in DOMAIN listings :
                             /\ listings[id].seller = u
                             /\ listings[id].status = "sold"})

\* C39: if a user has a connected socket that joined under their id and has
\* not disconnected, the registry maps the user to such a socket and the
\* latest presence event for the user is not userOffline; the disconnect of
\* an older socket of a user does not remove the entry of a newer one.
C39_RegistryTracksLiveSocket ==
    \A u \in MsgUsers :
        (\E s \in OpenSockets : socketUser[s] = u)
        => /\ connectedUsers[u] \in OpenSockets
           /\ \A p \in delivered :
                  ~(p.event = "userOffline" /\ p.user = u)

\* C40: no admin can, by a request of their own through any route,
\* deactivate their own account or remove their own admin role; hence, with
\* admin requests running one at a time, a system that has an active admin
\* keeps at least one active admin.
C40_AdminKeepsOwnAccess ==
    /\ [][\A a \in Users, id \in UserIdInputs :
            (/\ \/ ToggleRole(a, id)
                \/ ToggleStatus(a, id)
                \/ ToggleUserStatus(a, id)
             /\ accounts[a].isAdmin /\ accounts[a].isActive)
            => accounts'[a].isAdmin /\ accounts'[a].isActive]_vars
    /\ [](\E a \in Users : accounts[a].isAdmin /\ accounts[a].isActive)

====
